---- MODULE Spec2Model ----
(***************************************************************************)
(* A model of the zapi/nevr core: the plugin registry and its dependency   *)
(* initializer, the authorization rule engine, the request pipeline, the   *)
(* plugin extension resolver and the request router.                        *)
(*                                                                          *)
(* Each subsystem has its own specification (SpecRegistry, SpecRules, ...) *)
(* over its own variables; the variables of the other subsystems are held  *)
(* at their idle value.                                                     *)
(***************************************************************************)
EXTENDS Integers, Sequences, FiniteSets, TLC

VARIABLES
  \* ---- plugin registry (registry.ts) ----
  registry,     \* Map<string, PluginRegistryEntry>, in insertion order
  pc,           \* position of the initializeAllPlugins call
  sorted,       \* the result of topologicalSort for the call in flight
  idx,          \* position of the for-loop over sorted
  log,          \* lifecycle events of the call in flight, in order
  initError,    \* what the call rejected with
  factories,    \* Map<string, PluginFactory>
  regCall,      \* the registration call in flight and whether it threw
  \* ---- authorization rules (rules.ts) ----
  rEntity,      \* the entity handed to checkRules: its rules and ownerField
  rCtx,         \* the rule context: user and resource
  rOut,         \* the call made and what it returned
  \* ---- request pipeline (index.ts: zapi, processRequest) ----
  pEntity,      \* the entity of the instance: rules and ownerField
  pPlugins,     \* config.plugins: the hooks of each plugin
  pStore,       \* the driver's record with id "r1" (null when there is none)
  pReq,         \* the request handled last
  pResp,        \* its response
  pTrace,       \* the validation, rule, hook and driver calls made for it
  \* ---- extension resolver (plugins/core/resolver.ts) ----
  xHeap,        \* the field definition objects, by reference
  xSchema,      \* plugin.schema.entities: each entity's flags and field refs
  xExt,         \* the extension of the resolvePlugin call made last
  xOut,         \* what that call returned, and the warnings it printed
  \* ---- request router (router.ts) ----
  mConfig,      \* the entity map, the plugin routes and entityMeta
  mReq,         \* the request matched last: method and path
  mOut,         \* the RouteMatch returned for it
  \* ---- the instance (index.ts: zapi, handleRequest) ----
  iConfig,      \* config: context function, middleware, plugins, driver
  iBoot,        \* where the initializePlugins call of zapi() stands
  iStore,       \* the driver's record of the entity (null when there is none)
  iReq,         \* the request handed to handleRequest last
  iOut,         \* what its promise settled with
  iTrace,       \* the middleware, routing, rule, hook and driver calls made for it
  \* ---- entity references (plugins/core/reference.ts) ----
  entityCache,  \* Map<string, Entity>: cache key -> the placeholder object
  refObjects,   \* how many placeholder objects have been created
  refOut,       \* the thunk invoked last and what it returned or threw
  \* ---- query parameters (validation.ts: validateQueryParams) ----
  qQuery,       \* the query object handed to validateQueryParams
  qOut,         \* what it returned
  \* ---- entity builder (entity.ts: EntityBuilder) ----
  bBuilder,     \* the builder: _name, _fields, _rules, _ownerField, _timestamps
  bCall,        \* the call made last, its argument and whether it threw
  bEntity       \* what build() returned last

regVars == <<registry, pc, sorted, idx, log, initError, factories, regCall>>
ruleVars == <<rEntity, rCtx, rOut>>

pipeVars == <<pEntity, pPlugins, pStore, pReq, pResp, pTrace>>

resVars == <<xHeap, xSchema, xExt, xOut>>

routerVars == <<mConfig, mReq, mOut>>

instVars == <<iConfig, iBoot, iStore, iReq, iOut, iTrace>>

refVars == <<entityCache, refObjects, refOut>>

queryVars == <<qQuery, qOut>>

builderVars == <<bBuilder, bCall, bEntity>>

vars == <<regVars, ruleVars, pipeVars, resVars, routerVars, instVars, refVars, queryVars, builderVars>>

\* What the actions of one subsystem leave alone.
regOthers == <<ruleVars, pipeVars, resVars, routerVars, instVars, queryVars, builderVars>>
ruleOthers == <<regVars, pipeVars, resVars, routerVars, instVars, refVars, queryVars, builderVars>>
pipeOthers == <<regVars, ruleVars, resVars, routerVars, instVars, refVars, queryVars, builderVars>>
resOthers == <<regVars, ruleVars, pipeVars, routerVars, instVars, refVars, queryVars, builderVars>>
routerOthers == <<regVars, ruleVars, pipeVars, resVars, instVars, refVars, queryVars, builderVars>>
instOthers == <<regVars, ruleVars, pipeVars, resVars, routerVars, refVars, queryVars, builderVars>>
refOthers == <<pc, sorted, idx, log, initError, factories, ruleVars, pipeVars, resVars, routerVars, instVars, queryVars, builderVars>>
queryOthers == <<regVars, ruleVars, pipeVars, resVars, routerVars, instVars, refVars, builderVars>>
builderOthers == <<regVars, ruleVars, pipeVars, resVars, routerVars, instVars, refVars, queryVars>>

\* The idle value of a variable that a specification does not use.
Idle == "idle"

RegistryIdle ==
  /\ registry = Idle /\ pc = Idle /\ sorted = Idle
  /\ idx = Idle /\ log = Idle /\ initError = Idle
  /\ factories = Idle /\ regCall = Idle

RulesIdle == rEntity = Idle /\ rCtx = Idle /\ rOut = Idle

PipelineIdle ==
  /\ pEntity = Idle /\ pPlugins = Idle /\ pStore = Idle
  /\ pReq = Idle /\ pResp = Idle /\ pTrace = Idle

ResolverIdle == xHeap = Idle /\ xSchema = Idle /\ xExt = Idle /\ xOut = Idle

RouterIdle == mConfig = Idle /\ mReq = Idle /\ mOut = Idle

InstanceIdle ==
  /\ iConfig = Idle /\ iBoot = Idle /\ iStore = Idle
  /\ iReq = Idle /\ iOut = Idle /\ iTrace = Idle

ReferenceIdle == entityCache = Idle /\ refObjects = Idle /\ refOut = Idle

QueryIdle == qQuery = Idle /\ qOut = Idle

\* The subsystems added to the model after the first five.
BuilderIdle == bBuilder = Idle /\ bCall = Idle /\ bEntity = Idle

LaterIdle == InstanceIdle /\ ReferenceIdle /\ QueryIdle /\ BuilderIdle

\* ---------------------------------------------------------------------------
\* Generic helpers
\* ---------------------------------------------------------------------------

Range(s) == {s[i] : i \in 1..Len(s)}

\* obj[key] = value and delete obj[key] on an object used as a map
MapSet(m, k, v) == [x \in (DOMAIN m) \cup {k} |-> IF x = k THEN v ELSE m[x]]
MapDel(m, k) == [x \in (DOMAIN m) \ {k} |-> m[x]]

\* Sequences over S of length at most n without repeated elements.
DistinctSeqs(S, n) ==
  {s \in UNION {[1..k -> S] : k \in 0..n} :
     \A i, j \in 1..Len(s) : i # j => s[i] # s[j]}

\* ---------------------------------------------------------------------------
\* Plugin registry and dependency initializer
\* ---------------------------------------------------------------------------

PluginIds == {"a", "b", "c"}

\* Longest meta.dependencies list that is enumerated.
MaxDeps == 2

DepLists == DistinctSeqs(PluginIds, MaxDeps)

\* registry.has(id)
registryHas(reg, id) == \E i \in 1..Len(reg) : reg[i].id = id

\* registry.get(id) (only used where registryHas holds)
registryGet(reg, id) == reg[CHOOSE i \in 1..Len(reg) : reg[i].id = id]

\* getAllPlugins(): the registered plugins in insertion order
getAllPlugins(reg) == [i \in 1..Len(reg) |-> [id |-> reg[i].id, deps |-> reg[i].deps]]

\* markPluginInitialized(id): a no-op when the id is not registered
markPluginInitialized(reg, id) ==
  [i \in 1..Len(reg) |->
     IF reg[i].id = id THEN [reg[i] EXCEPT !.initialized = TRUE] ELSE reg[i]]

\* pluginMap of topologicalSort
pluginMapHas(plugins, id) == \E i \in 1..Len(plugins) : plugins[i].id = id
pluginMapGet(plugins, id) == plugins[CHOOSE i \in 1..Len(plugins) : plugins[i].id = id]

\* No registration call is in flight.
NoRegCall == [fn |-> "none", id |-> "none", threw |-> FALSE]

\* The message initializeAllPlugins rejects with when a hook of plugin id throws
failedToInitialize(id) == "Failed to initialize plugin " \o id

SortInit == [sorted |-> <<>>, visited |-> {}, visiting |-> {}, error |-> "none"]

RECURSIVE visit(_, _, _)
RECURSIVE visitDeps(_, _, _, _, _)

\* The for-loop over plugin.meta.dependencies inside visit, from position k.
visitDeps(st, plugin, k, plugins, dummy) ==
  IF st.error # "none" \/ k > Len(plugin.deps) THEN st
  ELSE LET depId == plugin.deps[k] IN
       IF pluginMapHas(plugins, depId)
       THEN visitDeps(visit(st, pluginMapGet(plugins, depId), plugins),
                      plugin, k + 1, plugins, dummy)
       ELSE [st EXCEPT !.error = "missing"]

\* A slip: a plugin met again while it is still being visited is taken as
\* done instead of being reported as a cycle.
visit_ignoreVisiting(st, plugin, plugins) ==
  IF st.error # "none" THEN st
  ELSE IF plugin.id \in st.visited \/ plugin.id \in st.visiting THEN st
  ELSE LET st1 == [st EXCEPT !.visiting = @ \cup {plugin.id}]
           st2 == visitDeps(st1, plugin, 1, plugins, 0)
       IN IF st2.error # "none" THEN st2
          ELSE [st2 EXCEPT !.visiting = @ \ {plugin.id},
                           !.visited = @ \cup {plugin.id},
                           !.sorted = Append(@, plugin)]

\* visit(plugin) of topologicalSort; a thrown error is carried in st.error
visit(st, plugin, plugins) ==
  IF st.error # "none" THEN st
  ELSE IF plugin.id \in st.visited THEN st
  ELSE IF plugin.id \in st.visiting THEN [st EXCEPT !.error = "circular"]
  ELSE LET st1 == [st EXCEPT !.visiting = @ \cup {plugin.id}]
           st2 == visitDeps(st1, plugin, 1, plugins, 0)
       IN IF st2.error # "none" THEN st2
          ELSE [st2 EXCEPT !.visiting = @ \ {plugin.id},
                           !.visited = @ \cup {plugin.id},
                           !.sorted = Append(@, plugin)]

RECURSIVE visitAll(_, _, _)
visitAll(st, k, plugins) ==
  IF k > Len(plugins) THEN st
  ELSE visitAll(visit(st, plugins[k], plugins), k + 1, plugins)

\* A slip: the catch block marks the plugin initialized as well.
setPluginError_marksInitialized(reg, id) ==
  [i \in 1..Len(reg) |->
     IF reg[i].id = id THEN [reg[i] EXCEPT !.error = TRUE, !.initialized = TRUE]
     ELSE reg[i]]

\* the catch block of initializeAllPlugins: entry.error = error
setPluginError(reg, id) ==
  [i \in 1..Len(reg) |->
     IF reg[i].id = id THEN [reg[i] EXCEPT !.error = TRUE] ELSE reg[i]]

\* A slip: no sorting at all, the plugins are initialized in registration order
\* and neither cycles nor missing dependencies are looked for.
topologicalSort_unsorted(plugins) ==
  [SortInit EXCEPT !.sorted = plugins]

\* topologicalSort(plugins): [sorted, error]
topologicalSort(plugins) == visitAll(SortInit, 1, plugins)

RegistryInit ==
  /\ registry = <<>>
  /\ pc = "idle"
  /\ sorted = <<>>
  /\ idx = 0
  /\ log = <<>>
  /\ initError = "none"
  /\ factories = Idle
  /\ regCall = NoRegCall
  /\ RulesIdle
  /\ PipelineIdle
  /\ ResolverIdle
  /\ RouterIdle
  /\ LaterIdle

\* A slip: the has-check is left out, so that registry.set replaces the entry
\* of an id that is registered already.
registerInstance_noCheck(reg, plugin) ==
  LET entry == [id |-> plugin.id, deps |-> plugin.deps,
                initialized |-> FALSE, error |-> FALSE]
  IN [registry |-> IF registryHas(reg, plugin.id)
                   THEN [i \in 1..Len(reg) |-> IF reg[i].id = plugin.id THEN entry ELSE reg[i]]
                   ELSE Append(reg, entry),
      threw |-> FALSE]

\* The body of registerPluginInstance(plugin) on the registry reg: the
\* registry it leaves and whether it threw
registerInstance(reg, plugin) ==
  IF registryHas(reg, plugin.id)
  THEN [registry |-> reg, threw |-> TRUE]
  ELSE [registry |-> Append(reg, [id |-> plugin.id, deps |-> plugin.deps,
                                  initialized |-> FALSE, error |-> FALSE]),
        threw |-> FALSE]

\* The ids and the factory functions of registerPluginFactory.
FactoryIds == {"a", "b"}
Factories == {"factory1", "factory2"}

\* The body of registerPluginFactory(id, factory) on the map of factories
registerFactory(facs, id, factory) ==
  IF id \in DOMAIN facs
  THEN [factories |-> facs, threw |-> TRUE]
  ELSE [factories |-> MapSet(facs, id, factory), threw |-> FALSE]

\* registerPluginFactory(id, factory)
registerPluginFactory ==
  /\ pc = "idle"
  /\ regCall = NoRegCall
  /\ \E id \in FactoryIds, factory \in Factories :
       LET r == registerFactory(factories, id, factory) IN
         /\ factories' = r.factories
         /\ regCall' = [fn |-> "registerPluginFactory", id |-> id, threw |-> r.threw]
  /\ UNCHANGED <<registry, pc, sorted, idx, log, initError, regOthers, refVars>>

\* clearPluginFactories()
clearPluginFactories ==
  /\ pc = "idle"
  /\ regCall = NoRegCall
  /\ DOMAIN factories # {}
  /\ factories' = [k \in {} |-> "factory1"]
  /\ UNCHANGED <<registry, pc, sorted, idx, log, initError, regCall, regOthers, refVars>>

\* registerPluginInstance(plugin)
registerPluginInstance ==
  /\ pc = "idle"
  /\ regCall = NoRegCall
  /\ \E id \in PluginIds, deps \in DepLists :
       LET r == registerInstance(registry, [id |-> id, deps |-> deps]) IN
         /\ registry' = r.registry
         /\ regCall' = [fn |-> "registerPluginInstance", id |-> id, threw |-> r.threw]
  /\ UNCHANGED <<pc, sorted, idx, log, initError, factories, regOthers, refVars>>

\* The registration call has returned or thrown to its caller.
registrationReturned ==
  /\ regCall # NoRegCall
  /\ regCall' = NoRegCall
  /\ UNCHANGED <<registry, pc, sorted, idx, log, initError, factories, regOthers, refVars>>

\* clearPluginRegistry()
clearPluginRegistry ==
  /\ pc = "idle"
  /\ regCall = NoRegCall
  /\ registry # <<>>
  /\ registry' = <<>>
  /\ UNCHANGED <<pc, sorted, idx, log, initError, factories, regCall, regOthers, refVars>>

\* initializeAllPlugins(zapi), up to the first await: the topological sort.
initializeAllPlugins ==
  /\ pc = "idle"
  /\ regCall = NoRegCall
  /\ LET r == topologicalSort(getAllPlugins(registry)) IN
       IF r.error # "none"
       THEN /\ pc' = "rejected"
            /\ initError' = r.error
            /\ sorted' = <<>>
            /\ idx' = 0
       ELSE /\ pc' = "running"
            /\ initError' = "none"
            /\ sorted' = r.sorted
            /\ idx' = 1
  /\ log' = <<>>
  /\ UNCHANGED <<registry, factories, regCall, regOthers, refVars>>

\* One iteration of the for-loop over sorted: onRegister, onInit (when the
\* plugin has them), markPluginInitialized; or the catch block when a hook
\* throws.  hooks: whether plugin.lifecycle has the two hooks; thrower: which
\* hook throws.
initializeAllPlugins_plugin ==
  /\ pc = "running"
  /\ idx <= Len(sorted)
  /\ LET id == sorted[idx].id IN
     \E hooks \in BOOLEAN, thrower \in {"none", "onRegister", "onInit"} :
       /\ (thrower # "none") => hooks
       /\ IF thrower = "none"
          THEN /\ log' = log \o (IF hooks
                                 THEN <<[ev |-> "onRegister", id |-> id, ok |-> TRUE],
                                        [ev |-> "onInit", id |-> id, ok |-> TRUE]>>
                                 ELSE <<>>)
                             \o <<[ev |-> "mark", id |-> id, ok |-> TRUE]>>
               /\ registry' = markPluginInitialized(registry, id)
               /\ idx' = idx + 1
               /\ pc' = "running"
               /\ initError' = initError
          ELSE /\ log' = log \o (IF thrower = "onRegister"
                                 THEN <<[ev |-> "onRegister", id |-> id, ok |-> FALSE]>>
                                 ELSE <<[ev |-> "onRegister", id |-> id, ok |-> TRUE],
                                        [ev |-> "onInit", id |-> id, ok |-> FALSE]>>)
               /\ registry' = setPluginError(registry, id)
               /\ idx' = idx
               /\ pc' = "rejected"
               /\ initError' = failedToInitialize(id)
  /\ UNCHANGED <<sorted, factories, regCall, regOthers, refVars>>

\* The loop is over: the promise resolves.
initializeAllPlugins_resolve ==
  /\ pc = "running"
  /\ idx > Len(sorted)
  /\ pc' = "resolved"
  /\ UNCHANGED <<registry, sorted, idx, log, initError, factories, regCall, regOthers, refVars>>

\* The caller has seen the outcome of the call.
initializeAllPlugins_settled ==
  /\ pc \in {"resolved", "rejected"}
  /\ pc' = "idle"
  /\ sorted' = <<>>
  /\ idx' = 0
  /\ log' = <<>>
  /\ initError' = "none"
  /\ UNCHANGED <<registry, factories, regCall, regOthers, refVars>>

RegistryNext ==
  \/ registerPluginInstance
  \/ registrationReturned
  \/ clearPluginRegistry
  \/ initializeAllPlugins
  \/ initializeAllPlugins_plugin
  \/ initializeAllPlugins_resolve
  \/ initializeAllPlugins_settled

SpecRegistry == RegistryInit /\ [][RegistryNext]_vars

\* The two registries while plugins and factories are being registered.
RegistrationInit ==
  /\ registry = <<>>
  /\ pc = "idle"
  /\ sorted = <<>>
  /\ idx = 0
  /\ log = <<>>
  /\ initError = "none"
  /\ factories = [k \in {} |-> "factory1"]
  /\ regCall = NoRegCall
  /\ RulesIdle
  /\ PipelineIdle
  /\ ResolverIdle
  /\ RouterIdle
  /\ LaterIdle

RegistrationNext ==
  \/ registerPluginFactory
  \/ clearPluginFactories
  \/ registerPluginInstance
  \/ clearPluginRegistry
  \/ registrationReturned

SpecRegistration == RegistrationInit /\ [][RegistrationNext]_vars

\* ---------------------------------------------------------------------------
\* Entity references (plugins/core/reference.ts)
\* ---------------------------------------------------------------------------

\* plugin.schema.entities of the plugin registered under each id: the names
\* of the entities it declares.
SchemaEntityNames == [a |-> {"user"}, b |-> {}, c |-> {"user"}]

\* plugin(pluginId).entityName: the thunks the application builds.
Thunks ==
  {[pluginId |-> "a", entityName |-> "user"], [pluginId |-> "a", entityName |-> "order"],
   [pluginId |-> "b", entityName |-> "user"]}

\* Most placeholder objects that are created.
MaxObjects == 2

\* `${pluginId}.${entityName}`
cacheKey(pluginId, entityName) == pluginId \o "." \o entityName

NoEntity == [ref |-> 0, name |-> "none"]

RefResult(cache, objects, threw, entity) ==
  [cache |-> cache, objects |-> objects, threw |-> threw, entity |-> entity]

\* A slip: the thunk does not look into the cache.
thunk_noCache(t, cache, objects, reg) ==
  IF ~registryHas(reg, t.pluginId)
  THEN RefResult(cache, objects, "Plugin not found", NoEntity)
  ELSE IF t.entityName \notin SchemaEntityNames[t.pluginId]
  THEN RefResult(cache, objects, "Entity not found", NoEntity)
  ELSE LET entity == [ref |-> objects + 1, name |-> t.entityName]
       IN RefResult(MapSet(cache, cacheKey(t.pluginId, t.entityName), entity),
                    objects + 1, "none", entity)

\* The thunk that plugin(pluginId).entityName returns, invoked: the cache and
\* the number of objects it leaves, and what it threw or returned
thunk(t, cache, objects, reg) ==
  LET key == cacheKey(t.pluginId, t.entityName) IN
  IF key \in DOMAIN cache THEN RefResult(cache, objects, "none", cache[key])
  ELSE IF ~registryHas(reg, t.pluginId)
  THEN RefResult(cache, objects, "Plugin not found", NoEntity)
  ELSE IF t.entityName \notin SchemaEntityNames[t.pluginId]
  THEN RefResult(cache, objects, "Entity not found", NoEntity)
  ELSE LET entity == [ref |-> objects + 1, name |-> t.entityName]
       IN RefResult(MapSet(cache, key, entity), objects + 1, "none", entity)

NoRefOut == [fn |-> "none", thunk |-> [pluginId |-> "none", entityName |-> "none"],
             threw |-> "none", entity |-> NoEntity]

ReferenceInit ==
  /\ registry = <<>>
  /\ pc = "idle"
  /\ sorted = <<>>
  /\ idx = 0
  /\ log = <<>>
  /\ initError = "none"
  /\ factories = Idle
  /\ regCall = NoRegCall
  /\ entityCache = [k \in {} |-> NoEntity]
  /\ refObjects = 0
  /\ refOut = NoRefOut
  /\ RulesIdle
  /\ PipelineIdle
  /\ ResolverIdle
  /\ RouterIdle
  /\ InstanceIdle
  /\ QueryIdle
  /\ BuilderIdle

\* A thunk built by plugin(pluginId).entityName is invoked.
thunkCall ==
  /\ refOut = NoRefOut
  /\ regCall = NoRegCall
  /\ \E t \in Thunks :
       LET r == thunk(t, entityCache, refObjects, registry) IN
         /\ r.objects <= MaxObjects
         /\ entityCache' = r.cache
         /\ refObjects' = r.objects
         /\ refOut' = [fn |-> "thunk", thunk |-> t, threw |-> r.threw, entity |-> r.entity]
  /\ UNCHANGED <<registry, regCall, refOthers>>

\* The caller has the entity, or the error.
thunkReturned ==
  /\ refOut # NoRefOut
  /\ refOut' = NoRefOut
  /\ UNCHANGED <<entityCache, refObjects, registry, regCall, refOthers>>

\* clearEntityCache()
clearEntityCache ==
  /\ refOut = NoRefOut
  /\ regCall = NoRegCall
  /\ DOMAIN entityCache # {}
  /\ entityCache' = [k \in {} |-> NoEntity]
  /\ UNCHANGED <<refObjects, refOut, registry, regCall, refOthers>>

\* The thunk and the registry functions are synchronous: none of them runs
\* while a call of another is in flight.
ReferenceNext ==
  \/ thunkCall
  \/ thunkReturned
  \/ clearEntityCache
  \/ (refOut = NoRefOut /\ registerPluginInstance)
  \/ registrationReturned
  \/ (refOut = NoRefOut /\ clearPluginRegistry)

SpecReference == ReferenceInit /\ [][ReferenceNext]_vars

\* ---- references in string form ----

\* A reference is a sequence of characters, so that includes and split
\* compute on it.
RECURSIVE splitOnDot(_, _, _)
\* ref.split("."): the pieces between the dots, the empty ones too
splitOnDot(ref, piece, parts) ==
  IF ref = <<>> THEN Append(parts, piece)
  ELSE IF Head(ref) = "." THEN splitOnDot(Tail(ref), <<>>, Append(parts, piece))
  ELSE splitOnDot(Tail(ref), Append(piece, Head(ref)), parts)

RECURSIVE textOf(_)
\* The string of a sequence of characters.
textOf(chars) == IF chars = <<>> THEN "" ELSE Head(chars) \o textOf(Tail(chars))

\* parseEntityRef(ref): pluginId is "null" for a reference without a dot
parseEntityRef(ref) ==
  IF \E i \in 1..Len(ref) : ref[i] = "."
  THEN LET parts == splitOnDot(ref, <<>>, <<>>) IN
       [pluginId |-> textOf(parts[1]), entityName |-> textOf(parts[2])]
  ELSE [pluginId |-> "null", entityName |-> textOf(ref)]

\* localEntities of the caller: the entities by name, as objects of their own.
LocalEntities == [post |-> [ref |-> 100, name |-> "post"]]

\* getPluginInstance(pluginId)?.schema?.entities?.[entityName]
schemaHas(reg, pluginId, entityName) ==
  /\ registryHas(reg, pluginId)
  /\ pluginId \in DOMAIN SchemaEntityNames
  /\ entityName \in SchemaEntityNames[pluginId]

\* resolveEntityRef(ref, localEntities): the entity NoEntity stands for
\* undefined
resolveEntityRef(ref, localEntities, cache, objects, reg) ==
  LET parsed == parseEntityRef(ref)
      key == cacheKey(parsed.pluginId, parsed.entityName)
  IN IF parsed.pluginId \notin {"null", ""}
     THEN IF key \in DOMAIN cache THEN RefResult(cache, objects, "none", cache[key])
          ELSE IF ~schemaHas(reg, parsed.pluginId, parsed.entityName)
          THEN RefResult(cache, objects, "none", NoEntity)
          ELSE RefResult(cache, objects + 1, "none",
                         [ref |-> objects + 1, name |-> parsed.entityName])
     ELSE RefResult(cache, objects, "none",
                    IF parsed.entityName \in DOMAIN localEntities
                    THEN localEntities[parsed.entityName] ELSE NoEntity)

\* The references that the application resolves: to entities of plugins, to
\* local entities, and some that are not well formed.
Refs ==
  {<<"a", ".", "u", "s", "e", "r">>, <<"a", ".", "o", "r", "d", "e", "r">>,
   <<"b", ".", "u", "s", "e", "r">>, <<"p", "o", "s", "t">>, <<"u", "s", "e", "r">>,
   <<".", "u", "s", "e", "r">>, <<"a", ".", "u", "s", "e", "r", ".", "i", "d">>}

\* resolveEntityRef(ref, localEntities) is called.
resolveEntityRefCall ==
  /\ refOut = NoRefOut
  /\ regCall = NoRegCall
  /\ \E ref \in Refs :
       \E r \in {resolveEntityRef(ref, LocalEntities, entityCache, refObjects, registry)} :
         /\ r.objects <= MaxObjects
         /\ entityCache' = r.cache
         /\ refObjects' = r.objects
         /\ refOut' = [fn |-> "resolveEntityRef", thunk |-> parseEntityRef(ref),
                       threw |-> r.threw, entity |-> r.entity]
  /\ UNCHANGED <<registry, regCall, refOthers>>

StringRefNext == ReferenceNext \/ resolveEntityRefCall

SpecStringRef == ReferenceInit /\ [][StringRefNext]_vars

\* ---------------------------------------------------------------------------
\* Authorization rules
\* ---------------------------------------------------------------------------

Operations == {"list", "create", "read", "update", "delete"}

\* Records are functions from field names to values; a missing key reads as
\* undefined and null is a record of its own.
NullRec == [null |-> "null"]
isNull(r) == "null" \in DOMAIN r
Get(r, k) == IF k \in DOMAIN r THEN r[k] ELSE "undefined"

\* ctx.user: null, or a user with an id and a role
NoUser == [id |-> "null", role |-> "null"]
Users == {NoUser, [id |-> "u1", role |-> "user"], [id |-> "u2", role |-> "admin"]}

\* RuleDef: the built-in names, a string that is no built-in name, and custom
\* functions that return true, return false or throw.
RuleDefs == {"everyone", "authenticated", "admin", "owner", "other",
             "fnTrue", "fnFalse", "fnThrow"}

\* Longest rule list that is enumerated.
MaxRules == 2

\* entity.config.rules[operation]: undefined, or a list of RuleDefs
NoRules == [defined |-> FALSE, list |-> <<>>]
RuleLists ==
  {NoRules} \cup {[defined |-> TRUE, list |-> l] : l \in UNION {[1..k -> RuleDefs] : k \in 0..MaxRules}}

\* everyone
everyone(ctx) == "true"

\* authenticated
authenticated(ctx) == IF ctx.user # NoUser THEN "true" ELSE "false"

\* admin
admin(ctx) == IF ctx.user # NoUser /\ ctx.user.role = "admin" THEN "true" ELSE "false"

\* A slip: the create path is looked at before the user.
owner_resourceFirst(ownerField, ctx) ==
  IF isNull(ctx.resource) THEN "true"
  ELSE IF ctx.user = NoUser THEN "false"
  ELSE IF Get(ctx.resource, ownerField) = ctx.user.id THEN "true" ELSE "false"

\* owner(ownerField)
owner(ownerField, ctx) ==
  IF ctx.user = NoUser THEN "false"
  ELSE IF isNull(ctx.resource) THEN "true"
  ELSE IF Get(ctx.resource, ownerField) = ctx.user.id THEN "true" ELSE "false"

\* resolveRule(rule, ownerField) applied to ctx: "true", "false" or "throw"
resolveRule(rule, ownerField, ctx) ==
  CASE rule = "fnTrue" -> "true"
    [] rule = "fnFalse" -> "false"
    [] rule = "fnThrow" -> "throw"
    [] rule = "everyone" -> everyone(ctx)
    [] rule = "authenticated" -> authenticated(ctx)
    [] rule = "admin" -> admin(ctx)
    [] rule = "owner" -> owner(ownerField, ctx)
    [] OTHER -> everyone(ctx)

\* The message of the error that the throwing custom rule throws.
ThrownMessage == "Quota exceeded"

RECURSIVE checkRulesFrom_noReturn(_, _, _, _, _)
\* A slip: a failed rule does not end the loop.
checkRulesFrom_noReturn(rules, k, ownerField, ctx, trace) ==
  IF k > Len(rules) THEN [allowed |-> TRUE, error |-> "undefined", trace |-> trace]
  ELSE LET out == resolveRule(rules[k], ownerField, ctx)
           tr == Append(trace, [rule |-> rules[k], out |-> out])
       IN IF out = "throw"
          THEN [allowed |-> FALSE, error |-> ThrownMessage, trace |-> tr]
          ELSE checkRulesFrom_noReturn(rules, k + 1, ownerField, ctx, tr)

RECURSIVE checkRulesFrom(_, _, _, _, _)
\* The for-loop of checkRules from rule k; trace lists the rules evaluated.
checkRulesFrom(rules, k, ownerField, ctx, trace) ==
  IF k > Len(rules) THEN [allowed |-> TRUE, error |-> "undefined", trace |-> trace]
  ELSE LET out == resolveRule(rules[k], ownerField, ctx)
           tr == Append(trace, [rule |-> rules[k], out |-> out])
       IN CASE out = "throw" ->
                 [allowed |-> FALSE, error |-> ThrownMessage, trace |-> tr]
            [] out = "false" ->
                 [allowed |-> FALSE,
                  error |-> IF ctx.user = NoUser THEN "Authentication required"
                            ELSE "Permission denied",
                  trace |-> tr]
            [] OTHER -> checkRulesFrom(rules, k + 1, ownerField, ctx, tr)

\* entity.config.ownerField || "authorId"
effectiveOwnerField(entity) ==
  IF entity.ownerField = "undefined" THEN "authorId" ELSE entity.ownerField

\* checkRules(entity, operation, ctx)
checkRules(entity, operation, ctx) ==
  LET rules == entity.rules[operation] IN
  IF ~rules.defined \/ Len(rules.list) = 0
  THEN [allowed |-> TRUE, error |-> "undefined", trace |-> <<>>]
  ELSE checkRulesFrom(rules.list, 1, effectiveOwnerField(entity), ctx, <<>>)

\* The entities handed to checkRules: one operation has the rule list l1, the
\* other operations the list l2.
RuleEntities ==
  {[rules |-> [o \in Operations |-> IF o = op0 THEN l1 ELSE l2], ownerField |-> f] :
     op0 \in Operations, l1 \in RuleLists,
     l2 \in {NoRules, [defined |-> TRUE, list |-> <<"fnFalse">>]},
     f \in {"undefined", "userId"}}

RuleResources ==
  {NullRec,
   [id |-> "r1", authorId |-> "u1"],
   [id |-> "r1", authorId |-> "u2", userId |-> "u1"],
   [id |-> "r1", userId |-> "u2"]}

RuleContexts == [user : Users, resource : RuleResources]

RulesInit ==
  /\ rEntity \in RuleEntities
  /\ rCtx \in RuleContexts
  /\ rOut = [op |-> "none", allowed |-> FALSE, error |-> "undefined", trace |-> <<>>]
  /\ RegistryIdle
  /\ PipelineIdle
  /\ ResolverIdle
  /\ RouterIdle
  /\ LaterIdle

\* A call of checkRules(rEntity, op, rCtx)
checkRulesCall ==
  /\ \E op \in Operations :
       LET r == checkRules(rEntity, op, rCtx) IN
         rOut' = [op |-> op, allowed |-> r.allowed, error |-> r.error, trace |-> r.trace]
  /\ UNCHANGED <<rEntity, rCtx, ruleOthers>>

RulesNext == checkRulesCall

SpecRules == RulesInit /\ [][RulesNext]_vars

\* The first rule of a list that does not resolve truthy for the context, or
\* one past the end.
FirstFailing(list, ownerField, ctx) ==
  IF \E i \in 1..Len(list) : resolveRule(list[i], ownerField, ctx) # "true"
  THEN CHOOSE i \in 1..Len(list) :
         /\ resolveRule(list[i], ownerField, ctx) # "true"
         /\ \A j \in 1..(i - 1) : resolveRule(list[j], ownerField, ctx) = "true"
  ELSE Len(list) + 1

C6_OwnerPassesWithoutResource ==
  \A i \in 1..Len(rOut.trace) :
    rOut.trace[i].rule = "owner" =>
      ((rOut.trace[i].out = "true") <=>
         \/ isNull(rCtx.resource)
         \/ /\ rCtx.user # NoUser
            /\ Get(rCtx.resource, effectiveOwnerField(rEntity)) = rCtx.user.id)

\* C6 (amended): the owner rule passes exactly when the user is non-null and
\* either there is no current resource or resource[ownerField] is the user's id.
C6_OwnerNeedsUser ==
  \A i \in 1..Len(rOut.trace) :
    rOut.trace[i].rule = "owner" =>
      ((rOut.trace[i].out = "true") <=>
         /\ rCtx.user # NoUser
         /\ \/ isNull(rCtx.resource)
            \/ Get(rCtx.resource, effectiveOwnerField(rEntity)) = rCtx.user.id)

\* The owner rule passes for the owner of an existing resource.
C6_Witness ==
  \E i \in 1..Len(rOut.trace) :
    /\ rOut.trace[i].rule = "owner"
    /\ rOut.trace[i].out = "true"
    /\ ~isNull(rCtx.resource)
    /\ rEntity.ownerField = "userId"

\* ---------------------------------------------------------------------------
\* Input validation (validation.ts)
\* ---------------------------------------------------------------------------

\* {}
EmptyRec == [k \in {} |-> "undefined"]

\* { ...a, ...b }; spreading null adds nothing
Spread(r) == IF isNull(r) THEN EmptyRec ELSE r
Merge(a, b) ==
  [k \in (DOMAIN Spread(a)) \cup (DOMAIN Spread(b)) |->
     IF k \in DOMAIN Spread(b) THEN b[k] ELSE a[k]]

\* typeof value, for the values that occur in request bodies
typeOf(v) == IF v = "#42" THEN "number" ELSE "string"

\* entity.config.fields of the entity "post": a required string and a
\* belongsTo relation with its foreign key.
PostFields ==
  [title |-> [type |-> "string", optional |-> FALSE, hasDefault |-> FALSE,
              relation |-> "none", foreignKey |-> "none"],
   author |-> [type |-> "string", optional |-> FALSE, hasDefault |-> FALSE,
               relation |-> "belongsTo", foreignKey |-> "authorId"]]

\* validateField(fieldName, value, field, operation): the set of errors
validateField(fieldName, value, field, operation) ==
  IF value = "undefined"
  THEN IF ~field.optional /\ ~field.hasDefault /\ operation = "create"
       THEN {[field |-> fieldName, message |-> "Required"]} ELSE {}
  ELSE IF value = "null"
  THEN IF ~field.optional
       THEN {[field |-> fieldName, message |-> "Cannot be null"]} ELSE {}
  ELSE IF field.type = "string" /\ typeOf(value) # "string"
  THEN {[field |-> fieldName, message |-> "Must be a string"]}
  ELSE {}

\* allowedFields of validateInput: the fields that are no hasMany relation,
\* and the foreign keys of the other relations
allowedFields(fields) ==
  {n \in DOMAIN fields : fields[n].relation # "hasMany"}
    \cup {fields[n].foreignKey : n \in {m \in DOMAIN fields :
                                   fields[m].relation \notin {"none", "hasMany"}}}

\* The field definition validateInput uses for an allowed key: the field of
\* that name, or a string field for a foreign key.
fieldForKey(fields, key) ==
  IF key \in DOMAIN fields THEN fields[key]
  ELSE LET f == fields[CHOOSE n \in DOMAIN fields : fields[n].foreignKey = key]
       IN [type |-> "string", optional |-> f.optional, hasDefault |-> FALSE,
           relation |-> "none", foreignKey |-> "none"]

\* The required-field check of validateInput for create.
requiredErrors(entity, input) ==
  {[field |-> (IF entity.fields[n].relation # "none"
               THEN entity.fields[n].foreignKey ELSE n),
    message |-> "Required"] :
     n \in {m \in DOMAIN entity.fields :
              LET f == entity.fields[m]
                  fieldName == IF f.relation # "none" THEN f.foreignKey ELSE m
              IN /\ f.relation # "hasMany"
                 /\ ~(entity.ownerField # "undefined" /\ f.relation # "none"
                      /\ f.foreignKey = entity.ownerField)
                 /\ ~f.optional /\ ~f.hasDefault
                 /\ fieldName \notin DOMAIN input}}

\* validateInput(entity, input, operation): [valid, errors, data]
validateInput(entity, input, operation) ==
  LET known == (DOMAIN input) \cap allowedFields(entity.fields)
      errs(k) == validateField(k, input[k], fieldForKey(entity.fields, k), operation)
      errors == UNION {errs(k) : k \in known}
                  \cup (IF operation = "create" THEN requiredErrors(entity, input) ELSE {})
      data == [k \in {j \in known : errs(j) = {} /\ input[j] # "undefined"} |-> input[k]]
  IN [valid |-> errors = {}, errors |-> errors, data |-> data]

\* ---------------------------------------------------------------------------
\* Query parameters (validation.ts: validateQueryParams)
\* ---------------------------------------------------------------------------

Digits == <<"0", "1", "2", "3", "4", "5", "6", "7", "8", "9">>
isDigit(c) == \E i \in 1..Len(Digits) : Digits[i] = c
digitValue(c) == (CHOOSE i \in 1..Len(Digits) : Digits[i] = c) - 1

\* A number of JavaScript that is an integer or NaN.
NaN == [nan |-> TRUE, n |-> 0]
Num(n) == [nan |-> FALSE, n |-> n]

RECURSIVE parseDigits(_, _, _, _)
\* The digits of str from position k on: the number read so far when the
\* first character that is no digit is met, NaN when there was no digit
parseDigits(str, k, acc, seen) ==
  IF k <= Len(str) /\ isDigit(str[k])
  THEN parseDigits(str, k + 1, 10 * acc + digitValue(str[k]), TRUE)
  ELSE IF seen THEN Num(acc) ELSE NaN

RECURSIVE skipWhiteSpace(_, _)
skipWhiteSpace(str, k) ==
  IF k <= Len(str) /\ str[k] = " " THEN skipWhiteSpace(str, k + 1) ELSE k

\* parseInt(str, 10)
parseInt(str) ==
  LET k == skipWhiteSpace(str, 1)
      signed == k <= Len(str) /\ str[k] \in {"-", "+"}
      v == parseDigits(str, IF signed THEN k + 1 ELSE k, 0, FALSE)
  IN IF ~v.nan /\ signed /\ str[k] = "-" THEN Num(0 - v.n) ELSE v

\* v || d for a number v: NaN and 0 are falsy
orElse(v, d) == IF v.nan \/ v.n = 0 THEN d ELSE v.n

Min(a, b) == IF a < b THEN a ELSE b
Max(a, b) == IF a > b THEN a ELSE b

\* typeof value === "string" for a value of the query object
isString(value) == value.type = "string"

\* A slip: the page is applied before offset and skip, which then win.
validateQueryParams_pageFirst(query) ==
  LET take0 == 20
      take1 == IF isString(query.limit)
               THEN Min(Max(1, orElse(parseInt(query.limit.text), 20)), 100) ELSE take0
      take2 == IF isString(query.take)
               THEN Min(Max(1, orElse(parseInt(query.take.text), 20)), 100) ELSE take1
      skip0 == 0
      skip1 == IF isString(query.page)
               THEN (Max(1, orElse(parseInt(query.page.text), 1)) - 1) * take2 ELSE skip0
      skip2 == IF isString(query.offset)
               THEN Max(0, orElse(parseInt(query.offset.text), 0)) ELSE skip1
      skip3 == IF isString(query.skip)
               THEN Max(0, orElse(parseInt(query.skip.text), 0)) ELSE skip2
  IN [take |-> take2, skip |-> skip3]

\* validateQueryParams(query): the pagination it returns
validateQueryParams(query) ==
  LET take0 == 20
      take1 == IF isString(query.limit)
               THEN Min(Max(1, orElse(parseInt(query.limit.text), 20)), 100) ELSE take0
      take2 == IF isString(query.take)
               THEN Min(Max(1, orElse(parseInt(query.take.text), 20)), 100) ELSE take1
      skip0 == 0
      skip1 == IF isString(query.offset)
               THEN Max(0, orElse(parseInt(query.offset.text), 0)) ELSE skip0
      skip2 == IF isString(query.skip)
               THEN Max(0, orElse(parseInt(query.skip.text), 0)) ELSE skip1
      skip3 == IF isString(query.page)
               THEN (Max(1, orElse(parseInt(query.page.text), 1)) - 1) * take2 ELSE skip2
  IN [take |-> take2, skip |-> skip3]

\* The values of a key of the query object: absent, a string, or the array
\* that a repeated key is parsed to.
Absent == [type |-> "undefined", text |-> <<>>]
Str(text) == [type |-> "string", text |-> text]
Repeated == [type |-> "object", text |-> <<"1">>]

LimitValues ==
  {Absent, Repeated, Str(<<"0">>), Str(<<"1">>), Str(<<"2", "0">>), Str(<<"1", "0", "0">>),
   Str(<<"1", "0", "1">>), Str(<<"5", "0", "0">>), Str(<<"-", "5">>), Str(<<"a", "b", "c">>),
   Str(<<"1", "2", "a", "b", "c">>), Str(<<" ", "7">>), Str(<<"2", ".", "9">>), Str(<<>>)}
TakeValues ==
  {Absent, Str(<<"5", "0">>), Str(<<"0">>), Str(<<"a", "b", "c">>), Str(<<"2", "0", "0">>)}
OffsetValues ==
  {Absent, Repeated, Str(<<"0">>), Str(<<"1", "0">>), Str(<<"-", "3">>), Str(<<"a", "b", "c">>)}
SkipValues == {Absent, Str(<<"5">>), Str(<<"-", "1">>)}
PageValues ==
  {Absent, Repeated, Str(<<"1">>), Str(<<"2">>), Str(<<"3">>), Str(<<"0">>), Str(<<"-", "2">>),
   Str(<<"a", "b", "c">>), Str(<<"+", "2">>)}

Queries ==
  [limit : LimitValues, take : TakeValues, offset : OffsetValues, skip : SkipValues,
   page : PageValues]

NoQuery == [limit |-> Absent, take |-> Absent, offset |-> Absent, skip |-> Absent,
            page |-> Absent]
NoPagination == [take |-> 0, skip |-> 0]

QueryInit ==
  /\ qQuery = NoQuery
  /\ qOut = NoPagination
  /\ RegistryIdle
  /\ RulesIdle
  /\ PipelineIdle
  /\ ResolverIdle
  /\ RouterIdle
  /\ InstanceIdle
  /\ ReferenceIdle
  /\ BuilderIdle

\* validateQueryParams(req.query) for the query of the next request
validateQueryParamsCall ==
  /\ qOut = NoPagination
  /\ \E query \in Queries :
       /\ qQuery' = query
       /\ qOut' = validateQueryParams(query)
  /\ UNCHANGED queryOthers

\* The pagination has been handed to the driver.
queryDone ==
  /\ qOut # NoPagination
  /\ qQuery' = NoQuery
  /\ qOut' = NoPagination
  /\ UNCHANGED queryOthers

QueryNext == validateQueryParamsCall \/ queryDone

SpecQuery == QueryInit /\ [][QueryNext]_vars

\* ---------------------------------------------------------------------------
\* Hooks (plugin.ts)
\* ---------------------------------------------------------------------------

BeforeHooks == {"beforeList", "beforeCreate", "beforeRead", "beforeUpdate", "beforeDelete"}

\* What a plugin's hook does with the hook context: the plugin has no such
\* hook, or its hook calls setInput({slug: "s"}), or stop(), or it throws an
\* Error, or it throws a NevrErrorClass with the code FORBIDDEN.
HookBehaviours == {"none", "setInput", "addFilter", "stop", "respond", "throw", "deny"}

\* The key a setInput hook adds.
HookKeys == {"slug"}

\* createHookContext(entity, operation, user, input, resource, driver)
createHookContext(user, input, resource) ==
  [user |-> user, input |-> Merge(EmptyRec, input),
   resource |-> IF isNull(resource) THEN NullRec ELSE Merge(EmptyRec, resource),
   stopped |-> FALSE, filters |-> EmptyRec]

\* A slip: setInput keeps the keys that the input already has.
setInput_keepOld(ctx, data) == [ctx EXCEPT !.input = Merge(data, @)]

\* hookCtx.setInput(data)
setInput(ctx, data) == [ctx EXCEPT !.input = Merge(@, data)]

\* hookCtx.addFilter(filter)
addFilter(ctx, filter) == [ctx EXCEPT !.filters = Merge(@, filter)]

\* hookCtx.setResource(data)
setResource(ctx, data) == [ctx EXCEPT !.resource = Merge(@, data)]

\* The values a hook, a handler or the driver throws: a NevrErrorClass, an
\* Error (with the code of a Prisma error or without one), an object that is
\* no Error, and a string.
NotThrown == [kind |-> "none", code |-> "none", message |-> "none"]
NevrErrorClass(code) == [kind |-> "NevrError", code |-> code, message |-> "refused"]
PrismaError(code) == [kind |-> "Error", code |-> code, message |-> "prisma"]
PlainError == [kind |-> "Error", code |-> "none", message |-> "boom"]
CodedObject == [kind |-> "object", code |-> "E_OTHER", message |-> "none"]
ThrownString == [kind |-> "string", code |-> "none", message |-> "none"]

\* What a hook of the behaviour b throws.
hookThrows(b) ==
  CASE b = "throw" -> PlainError
    [] b = "deny" -> NevrErrorClass("FORBIDDEN")
    [] OTHER -> NotThrown

hookOf(plugin, hookName) ==
  IF hookName \in BeforeHooks THEN plugin.before ELSE plugin.after

\* The hook hookName of a plugin, applied to the hook context.
runHook(plugin, hookName, ctx) ==
  LET b == hookOf(plugin, hookName) IN
  CASE b = "setInput" -> setInput(ctx, [slug |-> "s"])
    [] b = "addFilter" -> addFilter(ctx, [published |-> "yes"])
    [] b = "stop" -> [ctx EXCEPT !.stopped = TRUE]
    [] b = "respond" -> [setResource(ctx, [id |-> "cached"]) EXCEPT !.stopped = TRUE]
    [] OTHER -> ctx

hasHook(plugin, hookName) == hookOf(plugin, hookName) # "none"

\* The record of a hook call: the plugin, the context it was given (seen),
\* the context as it left it (left) and whether it returned.
HookEv(hookName, k, seen, left, err) ==
  [ev |-> "hook", name |-> hookName, data |-> seen.input, ok |-> err = NotThrown,
   resource |-> seen.resource, result |-> left.resource, stopped |-> left.stopped,
   plugin |-> k, seen |-> seen, left |-> left]

\* A slip: the next hook is given a context that forgot the stop.
hookStep_dropsStop(hookName, m, plugins, k) ==
  LET err == hookThrows(hookOf(plugins[k], hookName))
      ctx == runHook(plugins[k], hookName, m.ctx)
  IN [m EXCEPT !.ctx = [ctx EXCEPT !.stopped = FALSE],
               !.thrown = err,
               !.trace = Append(@, HookEv(hookName, k, m.ctx, ctx, err))]

\* await hook(ctx) for the hook of plugin k: it works on the one context of
\* the request and is over before the loop goes on
hookStep(hookName, m, plugins, k) ==
  LET err == hookThrows(hookOf(plugins[k], hookName))
      ctx == runHook(plugins[k], hookName, m.ctx)
  IN [m EXCEPT !.ctx = ctx,
               !.thrown = err,
               !.trace = Append(@, HookEv(hookName, k, m.ctx, ctx, err))]

RECURSIVE executeHookFrom(_, _, _, _, _)
\* The for-loop of executeHook from plugin k; m carries the hook context, the
\* trace of the request and what a hook threw.
executeHookFrom(hookName, m, plugins, k, dummy) ==
  IF k > Len(plugins) \/ m.ctx.stopped \/ m.thrown # NotThrown THEN m
  ELSE IF hasHook(plugins[k], hookName)
  THEN executeHookFrom(hookName, hookStep(hookName, m, plugins, k), plugins, k + 1, dummy)
  ELSE executeHookFrom(hookName, m, plugins, k + 1, dummy)

\* executeHook(hookName, ctx, plugins)
executeHook(hookName, m, plugins) == executeHookFrom(hookName, m, plugins, 1, 0)

\* ---------------------------------------------------------------------------
\* Error responses (error.ts) and the driver
\* ---------------------------------------------------------------------------

\* createErrorResponse(code, message, details): no headers are set
createErrorResponse(status, code, message, details) ==
  [status |-> status, code |-> code, message |-> message, details |-> details,
   body |-> NullRec, headers |-> "none"]

validationError(errors) ==
  createErrorResponse(400, "VALIDATION_ERROR", "Validation failed", errors)

unauthorizedError(message) ==
  createErrorResponse(401, "UNAUTHORIZED",
    IF message = "undefined" THEN "Authentication required" ELSE message, {})

forbiddenError(message) ==
  createErrorResponse(403, "FORBIDDEN",
    IF message = "undefined" THEN "Permission denied" ELSE message, {})

notFoundError(message) ==
  createErrorResponse(404, "NOT_FOUND",
    IF message = "undefined" THEN "Not found" ELSE message, {})

conflictError(message) ==
  createErrorResponse(409, "CONFLICT",
    IF message = "undefined" THEN "Resource already exists" ELSE message, {})

internalError(message) ==
  createErrorResponse(500, "INTERNAL_ERROR",
    IF message = "undefined" THEN "Internal server error" ELSE message, {})

errorCodeToStatus(code) ==
  CASE code = "VALIDATION_ERROR" -> 400
    [] code = "UNAUTHORIZED" -> 401
    [] code = "FORBIDDEN" -> 403
    [] code = "NOT_FOUND" -> 404
    [] code = "CONFLICT" -> 409
    [] OTHER -> 500

\* handleError(error); production: process.env.NODE_ENV === "production"
handleError(error, production) ==
  IF error.kind = "NevrError"
  THEN createErrorResponse(errorCodeToStatus(error.code), error.code, error.message, {})
  ELSE IF error.kind \in {"Error", "object"} /\ error.code = "P2002"
  THEN conflictError("Resource already exists")
  ELSE IF error.kind \in {"Error", "object"} /\ error.code = "P2025"
  THEN notFoundError("undefined")
  ELSE IF error.kind \in {"Error", "object"} /\ error.code = "P2003"
  THEN validationError({[field |-> "relation", message |-> "Related resource not found"]})
  ELSE IF error.kind = "Error"
  THEN internalError(IF production THEN "Internal server error" ELSE error.message)
  ELSE internalError("Unknown error")

\* A response of the pipeline itself, with the headers the middleware set.
response(status, body) ==
  [status |-> status, code |-> "none", message |-> "none", details |-> {},
   body |-> body, headers |-> "ctx"]

\* A slip: the status is chosen the wrong way round.
deniedResponse_swapped(user, error) ==
  IF user = NoUser THEN forbiddenError(error) ELSE unauthorizedError(error)

\* req.user ? forbiddenError(error) : unauthorizedError(error)
deniedResponse(user, error) ==
  IF user # NoUser THEN forbiddenError(error) ELSE unauthorizedError(error)

\* driver.findOne(entity, where) over the one record of the store
driverFindOne(store, where) ==
  IF ~isNull(store) /\ \A k \in DOMAIN where : Get(store, k) = where[k]
  THEN store ELSE NullRec

\* driver.create(entity, data): the created record
driverCreate(data) == Merge([id |-> "r2"], data)

\* driver.update(entity, where, data): the updated record
driverUpdate(store, data) == Merge(store, data)

Ev(ev, name, data, ok) == [ev |-> ev, name |-> name, data |-> data, ok |-> ok]

\* The environment of a request: the driver call that throws for it (none
\* when fault.call is "none") with the value thrown, and NODE_ENV.
NoFault == [call |-> "none", error |-> NotThrown]
driverThrows(env, call) == env.fault.call = call

\* ---------------------------------------------------------------------------
\* processRequest (index.ts), for a request that matchRoute resolved to an
\* operation of the entity
\* ---------------------------------------------------------------------------

Out(resp, trace, store) == [resp |-> resp, trace |-> trace, store |-> store]

\* The catch block of processRequest.
caught(error, env, trace, store) == Out(handleError(error, env.production), trace, store)

\* The hook context and trace that executeHook starts from.
hookRun(ctx, trace) == [ctx |-> ctx, trace |-> trace, thrown |-> NotThrown]

\* LIST
processList(entity, plugins, req, store, env) ==
  LET hookCtx == createHookContext(req.user, req.body, NullRec)
      rr == checkRules(entity, "list", [user |-> req.user, resource |-> NullRec])
      t1 == <<Ev("checkRules", "list", NullRec, rr.allowed)>>
  IN IF ~rr.allowed THEN Out(deniedResponse(req.user, rr.error), t1, store)
     ELSE LET m == executeHook("beforeList", hookRun(hookCtx, t1), plugins) IN
          IF m.thrown # NotThrown THEN caught(m.thrown, env, m.trace, store)
          ELSE IF m.ctx.stopped
          THEN Out(response(200, IF isNull(m.ctx.resource) THEN [list |-> "empty"]
                                 ELSE m.ctx.resource), m.trace, store)
          ELSE IF driverThrows(env, "findMany")
          THEN caught(env.fault.error, env,
                      Append(m.trace, Ev("driver", "findMany", m.ctx.filters, FALSE)), store)
          ELSE Out(response(200, [list |-> "rows"]),
                   m.trace \o <<Ev("driver", "findMany", m.ctx.filters, TRUE),
                                Ev("driver", "count", m.ctx.filters, TRUE)>>,
                   store)

\* A slip: the rules of a create are checked ahead of its validation.
processCreate_rulesFirst(entity, plugins, req, store, env) ==
  LET hookCtx == createHookContext(req.user, req.body, NullRec)
      input == req.body
      validation == validateInput(entity, input, "create")
      rr == checkRules(entity, "create", [user |-> req.user, resource |-> NullRec])
      t1 == <<Ev("checkRules", "create", NullRec, rr.allowed)>>
      t2 == Append(t1, Ev("validate", "create", input, validation.valid))
  IN IF ~rr.allowed THEN Out(deniedResponse(req.user, rr.error), t1, store)
     ELSE IF ~validation.valid THEN Out(validationError(validation.errors), t2, store)
          ELSE (  LET c1 == setInput(hookCtx, validation.data)
                      c2 == IF entity.ownerField # "undefined" /\ req.user # NoUser
                            THEN setInput(c1, [k \in {entity.ownerField} |-> req.user.id])
                            ELSE c1
                      m == executeHook("beforeCreate", hookRun(c2, t2), plugins)
                  IN IF m.thrown # NotThrown THEN caught(m.thrown, env, m.trace, store)
                     ELSE IF m.ctx.stopped
                     THEN Out(response(201, m.ctx.resource), m.trace, store)
                     ELSE IF driverThrows(env, "create")
                     THEN caught(env.fault.error, env,
                                 Append(m.trace, Ev("driver", "create", m.ctx.input, FALSE)),
                                 store)
                     ELSE LET created == driverCreate(m.ctx.input)
                              t3 == Append(m.trace, Ev("driver", "create", m.ctx.input, TRUE))
                              m2 == executeHook("afterCreate",
                                      hookRun(setResource(m.ctx, created), t3), plugins)
                          IN IF m2.thrown # NotThrown
                             THEN caught(m2.thrown, env, m2.trace, store)
                             ELSE Out(response(201, created), m2.trace, store))

\* CREATE
processCreate(entity, plugins, req, store, env) ==
  LET hookCtx == createHookContext(req.user, req.body, NullRec)
      input == req.body
      validation == validateInput(entity, input, "create")
      t1 == <<Ev("validate", "create", input, validation.valid)>>
  IN IF ~validation.valid THEN Out(validationError(validation.errors), t1, store)
     ELSE LET rr == checkRules(entity, "create", [user |-> req.user, resource |-> NullRec])
              t2 == Append(t1, Ev("checkRules", "create", NullRec, rr.allowed))
          IN IF ~rr.allowed THEN Out(deniedResponse(req.user, rr.error), t2, store)
             ELSE LET c1 == setInput(hookCtx, validation.data)
                      c2 == IF entity.ownerField # "undefined" /\ req.user # NoUser
                            THEN setInput(c1, [k \in {entity.ownerField} |-> req.user.id])
                            ELSE c1
                      m == executeHook("beforeCreate", hookRun(c2, t2), plugins)
                  IN IF m.thrown # NotThrown THEN caught(m.thrown, env, m.trace, store)
                     ELSE IF m.ctx.stopped
                     THEN Out(response(201, m.ctx.resource), m.trace, store)
                     ELSE IF driverThrows(env, "create")
                     THEN caught(env.fault.error, env,
                                 Append(m.trace, Ev("driver", "create", m.ctx.input, FALSE)),
                                 store)
                     ELSE LET created == driverCreate(m.ctx.input)
                              t3 == Append(m.trace, Ev("driver", "create", m.ctx.input, TRUE))
                              m2 == executeHook("afterCreate",
                                      hookRun(setResource(m.ctx, created), t3), plugins)
                          IN IF m2.thrown # NotThrown
                             THEN caught(m2.thrown, env, m2.trace, store)
                             ELSE Out(response(201, created), m2.trace, store)

\* READ
processRead(entity, plugins, req, store, env) ==
  LET hookCtx == createHookContext(req.user, req.body, NullRec)
      m == executeHook("beforeRead", hookRun(hookCtx, <<>>), plugins)
      where == Merge([id |-> req.resourceId], m.ctx.filters)
      resource == driverFindOne(store, where)
      t1 == Append(m.trace, Ev("driver", "findOne", where, ~driverThrows(env, "findOne")))
  IN IF m.thrown # NotThrown THEN caught(m.thrown, env, m.trace, store)
     ELSE IF driverThrows(env, "findOne") THEN caught(env.fault.error, env, t1, store)
     ELSE IF isNull(resource) THEN Out(notFoundError("Post not found"), t1, store)
     ELSE LET rr == checkRules(entity, "read", [user |-> req.user, resource |-> resource])
              t2 == Append(t1, Ev("checkRules", "read", resource, rr.allowed))
          IN IF ~rr.allowed THEN Out(deniedResponse(req.user, rr.error), t2, store)
             ELSE Out(response(200, resource), t2, store)

\* A slip: an update goes on to the driver although a hook stopped it.
processUpdate_ignoreStop(entity, plugins, req, store, env) ==
  LET hookCtx == createHookContext(req.user, req.body, NullRec)
      where == [id |-> req.resourceId]
      existing == driverFindOne(store, where)
      t0 == <<Ev("driver", "findOne", where, ~driverThrows(env, "findOne"))>>
  IN IF driverThrows(env, "findOne") THEN caught(env.fault.error, env, t0, store)
     ELSE IF isNull(existing) THEN Out(notFoundError("Post not found"), t0, store)
     ELSE LET input == req.body
              validation == validateInput(entity, input, "update")
              t1 == Append(t0, Ev("validate", "update", input, validation.valid))
          IN IF ~validation.valid THEN Out(validationError(validation.errors), t1, store)
             ELSE LET rr == checkRules(entity, "update",
                                       [user |-> req.user, resource |-> existing])
                      t2 == Append(t1, Ev("checkRules", "update", existing, rr.allowed))
                  IN IF ~rr.allowed THEN Out(deniedResponse(req.user, rr.error), t2, store)
                     ELSE LET c1 == setResource(setInput(hookCtx, validation.data), existing)
                              m == executeHook("beforeUpdate", hookRun(c1, t2), plugins)
                          IN IF m.thrown # NotThrown
                             THEN caught(m.thrown, env, m.trace, store)
                             ELSE IF driverThrows(env, "update")
                             THEN caught(env.fault.error, env,
                                         Append(m.trace,
                                                Ev("driver", "update", m.ctx.input, FALSE)),
                                         store)
                             ELSE LET updated == driverUpdate(store, m.ctx.input)
                                      t3 == Append(m.trace,
                                              Ev("driver", "update", m.ctx.input, TRUE))
                                      m2 == executeHook("afterUpdate",
                                              hookRun(setResource(m.ctx, updated), t3),
                                              plugins)
                                  IN IF m2.thrown # NotThrown
                                     THEN caught(m2.thrown, env, m2.trace, updated)
                                     ELSE Out(response(200, updated), m2.trace, updated)

\* UPDATE
processUpdate(entity, plugins, req, store, env) ==
  LET hookCtx == createHookContext(req.user, req.body, NullRec)
      where == [id |-> req.resourceId]
      existing == driverFindOne(store, where)
      t0 == <<Ev("driver", "findOne", where, ~driverThrows(env, "findOne"))>>
  IN IF driverThrows(env, "findOne") THEN caught(env.fault.error, env, t0, store)
     ELSE IF isNull(existing) THEN Out(notFoundError("Post not found"), t0, store)
     ELSE LET input == req.body
              validation == validateInput(entity, input, "update")
              t1 == Append(t0, Ev("validate", "update", input, validation.valid))
          IN IF ~validation.valid THEN Out(validationError(validation.errors), t1, store)
             ELSE LET rr == checkRules(entity, "update",
                                       [user |-> req.user, resource |-> existing])
                      t2 == Append(t1, Ev("checkRules", "update", existing, rr.allowed))
                  IN IF ~rr.allowed THEN Out(deniedResponse(req.user, rr.error), t2, store)
                     ELSE LET c1 == setResource(setInput(hookCtx, validation.data), existing)
                              m == executeHook("beforeUpdate", hookRun(c1, t2), plugins)
                          IN IF m.thrown # NotThrown
                             THEN caught(m.thrown, env, m.trace, store)
                             ELSE IF m.ctx.stopped
                             THEN Out(response(200, m.ctx.resource), m.trace, store)
                             ELSE IF driverThrows(env, "update")
                             THEN caught(env.fault.error, env,
                                         Append(m.trace,
                                                Ev("driver", "update", m.ctx.input, FALSE)),
                                         store)
                             ELSE LET updated == driverUpdate(store, m.ctx.input)
                                      t3 == Append(m.trace,
                                              Ev("driver", "update", m.ctx.input, TRUE))
                                      m2 == executeHook("afterUpdate",
                                              hookRun(setResource(m.ctx, updated), t3),
                                              plugins)
                                  IN IF m2.thrown # NotThrown
                                     THEN caught(m2.thrown, env, m2.trace, updated)
                                     ELSE Out(response(200, updated), m2.trace, updated)

\* A slip: the rules of a delete are checked before the record is fetched.
processDelete_rulesFirst(entity, plugins, req, store, env) ==
  LET hookCtx == createHookContext(req.user, req.body, NullRec)
      where == [id |-> req.resourceId]
      existing == driverFindOne(store, where)
      t0 == <<Ev("driver", "findOne", where, ~driverThrows(env, "findOne"))>>
      rr == checkRules(entity, "delete", [user |-> req.user, resource |-> NullRec])
      tr == <<Ev("checkRules", "delete", NullRec, rr.allowed)>>
      t1 == tr \o t0
  IN IF ~rr.allowed THEN Out(deniedResponse(req.user, rr.error), tr, store)
     ELSE IF driverThrows(env, "findOne") THEN caught(env.fault.error, env, t1, store)
     ELSE IF isNull(existing) THEN Out(notFoundError("Post not found"), t1, store)
     ELSE (  LET m == executeHook("beforeDelete",
                                       hookRun(setResource(hookCtx, existing), t1), plugins)
                  IN IF m.thrown # NotThrown THEN caught(m.thrown, env, m.trace, store)
                     ELSE IF m.ctx.stopped
                     THEN Out(response(204, NullRec), m.trace, store)
                     ELSE IF driverThrows(env, "delete")
                     THEN caught(env.fault.error, env,
                                 Append(m.trace, Ev("driver", "delete", where, FALSE)), store)
                     ELSE LET t2 == Append(m.trace, Ev("driver", "delete", where, TRUE))
                              m2 == executeHook("afterDelete", hookRun(m.ctx, t2), plugins)
                          IN IF m2.thrown # NotThrown
                             THEN caught(m2.thrown, env, m2.trace, NullRec)
                             ELSE Out(response(204, NullRec), m2.trace, NullRec))

\* DELETE
processDelete(entity, plugins, req, store, env) ==
  LET hookCtx == createHookContext(req.user, req.body, NullRec)
      where == [id |-> req.resourceId]
      existing == driverFindOne(store, where)
      t0 == <<Ev("driver", "findOne", where, ~driverThrows(env, "findOne"))>>
  IN IF driverThrows(env, "findOne") THEN caught(env.fault.error, env, t0, store)
     ELSE IF isNull(existing) THEN Out(notFoundError("Post not found"), t0, store)
     ELSE LET rr == checkRules(entity, "delete", [user |-> req.user, resource |-> existing])
              t1 == Append(t0, Ev("checkRules", "delete", existing, rr.allowed))
          IN IF ~rr.allowed THEN Out(deniedResponse(req.user, rr.error), t1, store)
             ELSE LET m == executeHook("beforeDelete",
                                       hookRun(setResource(hookCtx, existing), t1), plugins)
                  IN IF m.thrown # NotThrown THEN caught(m.thrown, env, m.trace, store)
                     ELSE IF m.ctx.stopped
                     THEN Out(response(204, NullRec), m.trace, store)
                     ELSE IF driverThrows(env, "delete")
                     THEN caught(env.fault.error, env,
                                 Append(m.trace, Ev("driver", "delete", where, FALSE)), store)
                     ELSE LET t2 == Append(m.trace, Ev("driver", "delete", where, TRUE))
                              m2 == executeHook("afterDelete", hookRun(m.ctx, t2), plugins)
                          IN IF m2.thrown # NotThrown
                             THEN caught(m2.thrown, env, m2.trace, NullRec)
                             ELSE Out(response(204, NullRec), m2.trace, NullRec)

\* The entity branch of processRequest.
processEntityRequest(entity, plugins, req, store, env) ==
  CASE req.op = "list" -> processList(entity, plugins, req, store, env)
    [] req.op = "create" -> processCreate(entity, plugins, req, store, env)
    [] req.op = "read" -> processRead(entity, plugins, req, store, env)
    [] req.op = "update" -> processUpdate(entity, plugins, req, store, env)
    [] req.op = "delete" -> processDelete(entity, plugins, req, store, env)

\* ---- the instance and its requests ----

\* The rule lists of the entities of the pipeline.
PipelineRuleLists ==
  {NoRules} \cup {[defined |-> TRUE, list |-> l] :
     l \in {<<"everyone">>, <<"authenticated">>, <<"owner">>, <<"admin">>,
            <<"fnFalse">>, <<"fnThrow">>, <<"authenticated", "owner">>}}

PipelineEntities ==
  {[fields |-> PostFields, rules |-> [o \in Operations |-> l], ownerField |-> f] :
     l \in PipelineRuleLists, f \in {"undefined", "authorId"}}

\* The plugin lists of the instances: none, one plugin of each behaviour of
\* its before hook, a plugin whose after hook throws, one with both hooks, and a plugin that stops
\* the operation ahead of one that changes the input.
PipelinePlugins ==
  {<<>>} \cup {<<[before |-> b, after |-> "none"]>> : b \in HookBehaviours}
    \cup {<<[before |-> "none", after |-> "throw"]>>,
          <<[before |-> "setInput", after |-> "setInput"]>>}
    \cup {<<[before |-> "stop", after |-> "none"], [before |-> "setInput", after |-> "none"]>>,
          <<[before |-> "setInput", after |-> "none"], [before |-> "none", after |-> "setInput"],
            [before |-> "addFilter", after |-> "setInput"]>>}

\* The driver's record "r1": none, or owned by u1 or u2.
PipelineStores ==
  {NullRec} \cup {[id |-> "r1", title |-> "old", authorId |-> u] : u \in {"u1", "u2"}}

\* req.body: any choice of a title (a string or a number), an authorId and
\* the undeclared key role.
BodyValues ==
  [title : {"undefined", "hello", "#42"}, authorId : {"undefined", "u1", "u2"},
   role : {"undefined", "admin"}]
Bodies == {[k \in {j \in DOMAIN b : b[j] # "undefined"} |-> b[k]] : b \in BodyValues}

Requests ==
  {[op |-> op, user |-> u, body |-> b,
    resourceId |-> IF op \in {"list", "create"} THEN "undefined" ELSE "r1"] :
     op \in Operations, u \in Users, b \in Bodies}

\* The driver calls of each operation.
DriverCalls ==
  [list |-> {"findMany"}, create |-> {"create"}, read |-> {"findOne"},
   update |-> {"findOne", "update"}, delete |-> {"findOne", "delete"}]

\* What the driver and NODE_ENV are for a request: the driver works, or one
\* of its calls throws a Prisma error or an Error without a code.
PipelineEnvs ==
  {[fault |-> NoFault, production |-> FALSE],
   [fault |-> [call |-> "create", error |-> PrismaError("P2002")], production |-> TRUE],
   [fault |-> [call |-> "update", error |-> PrismaError("P2025")], production |-> FALSE],
   [fault |-> [call |-> "delete", error |-> PrismaError("P2003")], production |-> FALSE],
   [fault |-> [call |-> "findOne", error |-> PlainError], production |-> TRUE],
   [fault |-> [call |-> "findMany", error |-> PlainError], production |-> FALSE]}

NoResponse == [status |-> 0, code |-> "none", message |-> "none", details |-> {},
               body |-> NullRec, headers |-> "none"]

NoRequest == [op |-> "none", user |-> NoUser, body |-> EmptyRec, resourceId |-> "undefined"]

PipelineInit ==
  /\ pEntity \in PipelineEntities
  /\ pPlugins \in PipelinePlugins
  /\ pStore \in PipelineStores
  /\ pReq = NoRequest
  /\ pResp = NoResponse
  /\ pTrace = <<>>
  /\ RegistryIdle
  /\ RulesIdle
  /\ ResolverIdle
  /\ RouterIdle
  /\ LaterIdle

\* handleRequest(req) for a request routed to the entity; the adapter hands
\* over the next request once the response to the last one is sent
handleRequest ==
  /\ pReq = NoRequest
  /\ \E req \in Requests, env \in PipelineEnvs :
       /\ (req.op \notin {"create", "update"}) => req.body = EmptyRec
       /\ env.fault.call \in DriverCalls[req.op] \cup {"none"}
       /\ LET out == processEntityRequest(pEntity, pPlugins, req, pStore, env) IN
            /\ pReq' = req
            /\ pResp' = out.resp
            /\ pTrace' = out.trace
            /\ pStore' = out.store
  /\ UNCHANGED <<pEntity, pPlugins, pipeOthers>>

\* sendResponse(res, response) of the adapter: the response leaves, and with
\* it the request's hook context
sendResponse ==
  /\ pReq # NoRequest
  /\ pReq' = NoRequest
  /\ pResp' = NoResponse
  /\ pTrace' = <<>>
  /\ UNCHANGED <<pEntity, pPlugins, pStore, pipeOthers>>

PipelineNext == handleRequest \/ sendResponse

SpecPipeline == PipelineInit /\ [][PipelineNext]_vars

\* ---------------------------------------------------------------------------
\* Extension resolver (plugins/core/resolver.ts)
\* ---------------------------------------------------------------------------


\* meta.id of the plugin
PluginId == "auth"

\* `${pluginId}_${entityName}`
namespaced(pluginId, entityName) == pluginId \o "_" \o entityName

\* The field definition objects: three of the declared schema, and the one an
\* extension supplies through add or addFields.
SchemaRefs == {"f_email", "f_name", "f_token", "f_note"}
ExtensionRef == "f_new"

FieldDefOf(required, locked) ==
  [type |-> "string", required |-> required, locked |-> locked]

\* The field definition an extension literal supplies: not locked.
NewFieldDef == FieldDefOf(FALSE, FALSE)

\* plugin.schema.entities: "user" with the fields email and name, and the
\* internal entity "session" with the field token.
SchemaOf(userRequired) ==
  [user |-> [fields |-> [email |-> "f_email", name |-> "f_name"],
             required |-> userRequired, internal |-> "undefined",
             routePath |-> "undefined"],
   session |-> [fields |-> [token |-> "f_token"],
                required |-> FALSE, internal |-> "true",
                routePath |-> "undefined"]]

\* A schema that also declares "auth_log", an entity whose name begins with
\* the id of the plugin, with the field note.
SchemaWithPrefixed ==
  [n \in {"user", "session", "auth_log"} |->
     IF n = "auth_log"
     THEN [fields |-> [note |-> "f_note"], required |-> FALSE, internal |-> "undefined",
           routePath |-> "undefined"]
     ELSE SchemaOf(FALSE)[n]]

HeapOf(emailLocked) ==
  [r \in SchemaRefs \cup {ExtensionRef} |->
     CASE r = "f_email" -> FieldDefOf(TRUE, emailLocked)
       [] r = "f_name" -> FieldDefOf(FALSE, FALSE)
       [] r = "f_token" -> FieldDefOf(TRUE, TRUE)
       [] OTHER -> NewFieldDef]

\* ---- extensions ----

\* Most field instructions of one entity instruction.
MaxFieldExts == 1

NoFieldExt ==
  [add |-> "undefined", rename |-> "undefined", override |-> EmptyRec, remove |-> FALSE]

\* PluginExtensionFieldDef: each instruction alone, and pairs of them
FieldExts ==
  {[NoFieldExt EXCEPT !.remove = TRUE],
   [NoFieldExt EXCEPT !.rename = "mail"],
   [NoFieldExt EXCEPT !.rename = "email"],
   [NoFieldExt EXCEPT !.override = [required |-> FALSE]],
   [NoFieldExt EXCEPT !.override = [locked |-> FALSE]],
   [NoFieldExt EXCEPT !.add = ExtensionRef],
   [NoFieldExt EXCEPT !.rename = "mail", !.override = [required |-> FALSE]],
   [NoFieldExt EXCEPT !.remove = TRUE, !.add = ExtensionRef]}

ExtFieldNames == {"email", "name"}

\* entityExt.fields, in key order: the keys are distinct
FieldExtLists ==
  {l \in UNION {[1..k -> [name : ExtFieldNames, ext : FieldExts]] : k \in 0..MaxFieldExts} :
     \A i, j \in 1..Len(l) : i # j => l[i].name # l[j].name}

AddFieldsMaps == {EmptyRec, [email |-> ExtensionRef]}

\* PluginExtensionEntityDef
EntityExts ==
  [remove : BOOLEAN, rename : {"undefined", "member", "user"},
   internal : {"undefined", "true"}, routePath : {"undefined", "members"},
   addFields : AddFieldsMaps, fields : FieldExtLists]

NoEntityExt ==
  [remove |-> FALSE, rename |-> "undefined", internal |-> "undefined",
   routePath |-> "undefined", addFields |-> EmptyRec, fields |-> <<>>]

\* extension.entities, in key order: one instruction for any entity name, or
\* two of them where the second addresses what the first left behind.
EntityExtLists ==
  {<<>>}
    \cup {<<[name |-> n, ext |-> e]>> :
            n \in {"user", "session", "ghost"},
            e \in {x \in EntityExts : x.internal = "undefined" \/ x.routePath = "undefined"}}
    \cup {<<[name |-> "user", ext |-> [NoEntityExt EXCEPT !.rename = "member"]],
            [name |-> "member", ext |-> e]>> :
            e \in {[NoEntityExt EXCEPT !.remove = TRUE],
                   [NoEntityExt EXCEPT !.fields =
                      <<[name |-> "email", ext |-> [NoFieldExt EXCEPT !.remove = TRUE]]>>]}}
    \cup {<<[name |-> "session", ext |-> [NoEntityExt EXCEPT !.rename = "user"]],
            [name |-> "user", ext |-> [NoEntityExt EXCEPT !.remove = TRUE]]>>}

\* A PluginEntityDef of extension.addEntities
AddedEntityDef ==
  [fields |-> [label |-> ExtensionRef], required |-> FALSE,
   internal |-> "undefined", routePath |-> "undefined"]

AddEntitiesMaps ==
  {EmptyRec, [profile |-> AddedEntityDef], [user |-> AddedEntityDef],
   [log |-> AddedEntityDef]}

\* extension.entityRoutes: per entity name, the configuration of operations
EntityRoutesMaps ==
  {EmptyRec, [user |-> [list |-> "disable"]], [member |-> [delete |-> "disableObject"]],
   [user |-> [list |-> "disable"], member |-> [delete |-> "disableObject"]]}

\* basePath of the extension and of meta: absent, false, or a path with or
\* without its leading slash
BasePaths == {"undefined", "false", "accounts", "/accounts"}

startsWithSlash(path) == path \in {"/accounts"}

NoExtension == [undefined |-> TRUE]

ExtensionOf(entities, addEntities, entityRoutes, basePath) ==
  [entities |-> entities, addEntities |-> addEntities,
   entityRoutes |-> entityRoutes, basePath |-> basePath]

\* PluginExtension: every list of entity instructions with nothing else, and
\* the renaming of "user" with every choice of the rest.
Extensions ==
  {ExtensionOf(l, EmptyRec, EmptyRec, "undefined") : l \in EntityExtLists}
    \cup {ExtensionOf(l, a, r, b) :
            l \in {<<>>, <<[name |-> "user", ext |-> [NoEntityExt EXCEPT !.rename = "member"]]>>},
            a \in AddEntitiesMaps, r \in EntityRoutesMaps, b \in BasePaths}

\* ---- applyExtension ----

Warn(st, kind, entity, field) ==
  [st EXCEPT !.warnings = @ \cup {[kind |-> kind, entity |-> entity, field |-> field]}]

\* One iteration of the loop over entityExt.fields
applyFieldExt(st, targetName, fieldName, fieldExt) ==
  LET fields == st.entities[targetName].fields
      field == fields[fieldName]
  IN IF fieldExt.add # "undefined"
     THEN [st EXCEPT !.entities[targetName].fields = MapSet(fields, fieldName, fieldExt.add)]
     ELSE IF fieldName \notin DOMAIN fields
     THEN Warn(st, "non-existent field", targetName, fieldName)
     ELSE IF fieldExt.remove
     THEN IF st.heap[field].locked
          THEN Warn(st, "locked field", targetName, fieldName)
          ELSE [st EXCEPT !.entities[targetName].fields = MapDel(fields, fieldName)]
     ELSE LET s1 == IF fieldExt.rename # "undefined"
                    THEN [st EXCEPT !.entities[targetName].fields =
                            MapDel(MapSet(fields, fieldExt.rename, field), fieldName)]
                    ELSE st
          IN [s1 EXCEPT !.heap[field] = Merge(@, fieldExt.override)]

RECURSIVE applyFieldExts(_, _, _, _)
\* The loop over entityExt.fields from instruction k
applyFieldExts(st, targetName, list, k) ==
  IF k > Len(list) THEN st
  ELSE applyFieldExts(applyFieldExt(st, targetName, list[k].name, list[k].ext),
                      targetName, list, k + 1)

\* The loop over entityExt.addFields
addFields(st, targetName, added) ==
  [st EXCEPT !.entities[targetName].fields =
     [f \in (DOMAIN @) \cup (DOMAIN added) |->
        IF f \in DOMAIN added THEN added[f] ELSE @[f]]]

RenameInfo(originalName, newName, routePath, internal) ==
  [originalName |-> originalName, newName |-> newName,
   routePath |-> routePath, internal |-> internal]

\* One iteration of the loop over extension.entities, from the rename on
applyEntityExtKept(st, entityName, entityExt) ==
  LET entity == st.entities[entityName]
      s1 == IF entityExt.rename # "undefined"
            THEN [st EXCEPT
                    !.entities = MapDel(MapSet(@, entityExt.rename, entity), entityName),
                    !.renames = MapSet(@, entityExt.rename,
                                  RenameInfo(entityName, entityExt.rename,
                                             entityExt.routePath, entityExt.internal))]
            ELSE IF entityExt.routePath # "undefined" \/ entityExt.internal # "undefined"
            THEN [st EXCEPT
                    !.renames = MapSet(@, entityName,
                                  RenameInfo(entityName, entityName,
                                             entityExt.routePath, entityExt.internal))]
            ELSE st
      targetName == IF entityExt.rename # "undefined" THEN entityExt.rename ELSE entityName
  IN IF targetName \notin DOMAIN s1.entities THEN s1
     ELSE LET s2 == IF entityExt.internal # "undefined"
                    THEN [s1 EXCEPT !.entities[targetName].internal = entityExt.internal]
                    ELSE s1
              s3 == IF entityExt.routePath # "undefined"
                    THEN [s2 EXCEPT !.entities[targetName].routePath = entityExt.routePath]
                    ELSE s2
              s4 == addFields(s3, targetName, entityExt.addFields)
          IN applyFieldExts(s4, targetName, entityExt.fields, 1)

\* One iteration of the loop over extension.entities
applyEntityExt(st, entityName, entityExt) ==
  IF entityName \notin DOMAIN st.entities
  THEN Warn(st, "non-existent entity", entityName, "none")
  ELSE IF entityExt.remove
  THEN IF st.entities[entityName].required
       THEN applyEntityExtKept(Warn(st, "required entity", entityName, "none"),
                               entityName, entityExt)
       ELSE [st EXCEPT !.entities = MapDel(@, entityName)]
  ELSE applyEntityExtKept(st, entityName, entityExt)

RECURSIVE applyEntityExts(_, _, _)
\* The loop over extension.entities from instruction k
applyEntityExts(st, list, k) ==
  IF k > Len(list) THEN st
  ELSE applyEntityExts(applyEntityExt(st, list[k].name, list[k].ext), list, k + 1)

\* The loop over extension.addEntities
addEntities(st, added, pluginId) ==
  [st EXCEPT
     !.entities =
        [n \in (DOMAIN @) \cup {namespaced(pluginId, a) : a \in DOMAIN added} |->
           IF \E a \in DOMAIN added : n = namespaced(pluginId, a)
           THEN added[CHOOSE a \in DOMAIN added : n = namespaced(pluginId, a)]
           ELSE @[n]],
     !.renames =
        [n \in (DOMAIN @) \cup {namespaced(pluginId, a) : a \in DOMAIN added} |->
           IF \E a \in DOMAIN added : n = namespaced(pluginId, a)
           THEN LET a == CHOOSE b \in DOMAIN added : n = namespaced(pluginId, b)
                IN RenameInfo(a, n, added[a].routePath, added[a].internal)
           ELSE @[n]]]

\* applyExtension(schema, extension, pluginId): the entities of the result
\* are fresh objects with fresh field maps, whose values are the field
\* definition objects of the schema
applyExtension(schemaEntities, heap, extension, pluginId) ==
  LET st0 == [entities |-> schemaEntities, renames |-> EmptyRec,
              heap |-> heap, warnings |-> {}]
  IN addEntities(applyEntityExts(st0, extension.entities, 1),
                 extension.addEntities, pluginId)

\* computeBasePath(meta, extension)
computeBasePath(meta, extension) ==
  LET slashed(path) == IF startsWithSlash(path) THEN path ELSE "/" \o path IN
  IF extension # NoExtension /\ extension.basePath # "undefined"
  THEN IF extension.basePath = "false" THEN "" ELSE slashed(extension.basePath)
  ELSE IF meta.basePath # "undefined"
  THEN IF meta.basePath = "false" THEN "" ELSE slashed(meta.basePath)
  ELSE "/" \o meta.id

\* toZapiField(field)
toZapiField(field) == [type |-> field.type, optional |-> ~field.required]

\* toZapiEntity(name, def), the field definitions read from the heap
toZapiEntity(name, def, heap) ==
  [name |-> name,
   fields |-> [f \in DOMAIN def.fields |-> toZapiField(heap[def.fields[f]])],
   rules |-> IF def.internal = "true" THEN "empty" ELSE "undefined"]

\* A slip: the route configuration is looked up under the original name first.
routeConfigOf_originalFirst(extension, name, renames) ==
  LET routes == IF extension = NoExtension THEN EmptyRec ELSE extension.entityRoutes
      original == IF name \in DOMAIN renames THEN renames[name].originalName ELSE name
  IN IF original \in DOMAIN routes THEN routes[original]
     ELSE IF name \in DOMAIN routes THEN routes[name]
     ELSE "undefined"

\* extension?.entityRoutes?.[name] || extension?.entityRoutes?.[originalName || name]
routeConfigOf(extension, name, renames) ==
  LET routes == IF extension = NoExtension THEN EmptyRec ELSE extension.entityRoutes
      original == IF name \in DOMAIN renames THEN renames[name].originalName ELSE name
  IN IF name \in DOMAIN routes THEN routes[name]
     ELSE IF original \in DOMAIN routes THEN routes[original]
     ELSE "undefined"

\* resolvePlugin(plugin): the resolved plugin, the heap it leaves and the
\* warnings printed
resolvePlugin(meta, schemaEntities, heap, extension) ==
  LET basePath == computeBasePath(meta, extension)
      r == IF extension # NoExtension
           THEN applyExtension(schemaEntities, heap, extension, meta.id)
           ELSE [entities |-> schemaEntities, renames |-> EmptyRec,
                 heap |-> heap, warnings |-> {}]
      metaOf(name) ==
        LET def == r.entities[name]
            known == name \in DOMAIN r.renames
            internal == IF known /\ r.renames[name].internal # "undefined"
                        THEN r.renames[name].internal
                        ELSE IF def.internal # "undefined" THEN def.internal
                        ELSE "false"
            routePath == IF known /\ r.renames[name].routePath # "undefined"
                         THEN r.renames[name].routePath ELSE def.routePath
        IN [originalName |-> IF known THEN r.renames[name].originalName ELSE name,
            pluginId |-> meta.id, basePath |-> basePath, routePath |-> routePath,
            internal |-> internal = "true",
            routeConfig |-> routeConfigOf(extension, name, r.renames)]
  IN [done |-> TRUE,
      basePath |-> basePath,
      schema |-> r.entities,
      entities |-> [n \in DOMAIN r.entities |-> toZapiEntity(n, r.entities[n], r.heap)],
      entityMeta |-> [n \in DOMAIN r.entities |-> metaOf(n)],
      warnings |-> r.warnings,
      heap |-> r.heap]

\* ---- the plugin and the calls ----

PluginMeta == [id |-> PluginId, basePath |-> "undefined"]

NoResolved ==
  [done |-> FALSE, basePath |-> "none", schema |-> EmptyRec, entities |-> EmptyRec,
   entityMeta |-> EmptyRec, warnings |-> {}]

ResolverInit ==
  /\ \/ \E userRequired \in BOOLEAN : xSchema = SchemaOf(userRequired)
     \/ xSchema = SchemaWithPrefixed
  /\ \E emailLocked \in BOOLEAN : xHeap = HeapOf(emailLocked)
  /\ xExt = NoExtension
  /\ xOut = NoResolved
  /\ RegistryIdle
  /\ RulesIdle
  /\ PipelineIdle
  /\ RouterIdle
  /\ LaterIdle

\* resolvePlugin(plugin) for the declaration with one extension; the
\* extension literal is built anew for the call
resolvePluginCall ==
  /\ ~xOut.done
  /\ \E extension \in Extensions \cup {NoExtension} :
       LET fresh == [xHeap EXCEPT ![ExtensionRef] = NewFieldDef]
           out == resolvePlugin(PluginMeta, xSchema, fresh, extension)
       IN /\ xExt' = extension
          /\ xOut' = [f \in (DOMAIN out) \ {"heap"} |-> out[f]]
          /\ xHeap' = out.heap
  /\ UNCHANGED <<xSchema, resOthers>>

\* The caller is done with the resolved plugin; the declaration stays.
resolvePluginDone ==
  /\ xOut.done
  /\ xExt' = NoExtension
  /\ xOut' = NoResolved
  /\ UNCHANGED <<xHeap, xSchema, resOthers>>

ResolverNext == resolvePluginCall \/ resolvePluginDone

SpecResolver == ResolverInit /\ [][ResolverNext]_vars

\* ---------------------------------------------------------------------------
\* Request router (router.ts)
\* ---------------------------------------------------------------------------

\* Strings are sequences of characters, so that pluralize, toLowerCase and
\* split compute on them.
Word ==
  [post |-> <<"p", "o", "s", "t">>,
   posts |-> <<"p", "o", "s", "t", "s">>,
   category |-> <<"c", "a", "t", "e", "g", "o", "r", "y">>,
   categories |-> <<"c", "a", "t", "e", "g", "o", "r", "i", "e", "s">>,
   user |-> <<"u", "s", "e", "r">>,
   users |-> <<"u", "s", "e", "r", "s">>,
   session |-> <<"s", "e", "s", "s", "i", "o", "n">>,
   sessions |-> <<"s", "e", "s", "s", "i", "o", "n", "s">>,
   members |-> <<"m", "e", "m", "b", "e", "r", "s">>,
   auth |-> <<"a", "u", "t", "h">>,
   AuthUpper |-> <<"A", "u", "t", "h">>,
   api |-> <<"a", "p", "i">>,
   v2 |-> <<"v", "2">>,
   login |-> <<"l", "o", "g", "i", "n">>,
   health |-> <<"h", "e", "a", "l", "t", "h">>,
   id42 |-> <<"4", "2">>]

UpperCase == <<"A", "B", "C", "D", "E", "F", "G", "H", "I", "J", "K", "L", "M", "N", "O", "P", "Q", "R", "S", "T", "U", "V", "W", "X", "Y", "Z">>
LowerCase == <<"a", "b", "c", "d", "e", "f", "g", "h", "i", "j", "k", "l", "m", "n", "o", "p", "q", "r", "s", "t", "u", "v", "w", "x", "y", "z">>

toLowerChar(c) ==
  IF \E i \in 1..Len(UpperCase) : UpperCase[i] = c
  THEN LowerCase[CHOOSE i \in 1..Len(UpperCase) : UpperCase[i] = c]
  ELSE c

\* str.toLowerCase()
toLowerCase(str) == [i \in 1..Len(str) |-> toLowerChar(str[i])]

\* str.endsWith(suffix)
endsWith(str, suffix) ==
  /\ Len(suffix) <= Len(str)
  /\ SubSeq(str, Len(str) - Len(suffix) + 1, Len(str)) = suffix

\* /[set]$/.test(str)
endsWithOneOf(str, set) == Len(str) >= 1 /\ str[Len(str)] \in set

\* pluralize(str)
pluralize(str) ==
  IF endsWith(str, <<"y">>)
     /\ ~(Len(str) >= 2 /\ str[Len(str) - 1] \in {"a", "e", "i", "o", "u"})
  THEN SubSeq(str, 1, Len(str) - 1) \o <<"i", "e", "s">>
  ELSE IF endsWithOneOf(str, {"s", "x", "z"})
          \/ (endsWith(str, <<"h">>) /\ Len(str) >= 2 /\ str[Len(str) - 1] \in {"c", "s"})
  THEN str \o <<"e", "s">>
  ELSE str \o <<"s">>

RECURSIVE trimLeft(_)
trimLeft(str) ==
  IF Len(str) >= 1 /\ str[1] = "/" THEN trimLeft(Tail(str)) ELSE str

RECURSIVE trimRight(_)
trimRight(str) ==
  IF Len(str) >= 1 /\ str[Len(str)] = "/" THEN trimRight(SubSeq(str, 1, Len(str) - 1))
  ELSE str

\* path.replace(/^\/+|\/+$/g, "")
trimSlashes(str) == trimRight(trimLeft(str))

RECURSIVE splitFrom(_, _, _, _)
\* str.split("/").filter(Boolean): the non-empty pieces between slashes
splitFrom(str, k, piece, parts) ==
  IF k > Len(str) THEN (IF piece = <<>> THEN parts ELSE Append(parts, piece))
  ELSE IF str[k] = "/"
  THEN splitFrom(str, k + 1, <<>>, IF piece = <<>> THEN parts ELSE Append(parts, piece))
  ELSE splitFrom(str, k + 1, Append(piece, str[k]), parts)

splitPath(str) == splitFrom(str, 1, <<>>, <<>>)

RECURSIVE joinPath(_)
\* parts.join("/")
joinPath(parts) ==
  IF parts = <<>> THEN <<>>
  ELSE IF Len(parts) = 1 THEN parts[1]
  ELSE parts[1] \o <<"/">> \o joinPath(Tail(parts))

\* An absent string (undefined) is the empty sequence: both are falsy.
NoString == <<>>

\* The method and resourceId table of matchRoute and matchPluginEntityRoute;
\* "none" when no branch applies
inferOperation(method, resourceId) ==
  IF method = "GET" /\ resourceId = NoString THEN "list"
  ELSE IF method = "GET" /\ resourceId # NoString THEN "read"
  ELSE IF method = "POST" /\ resourceId = NoString THEN "create"
  ELSE IF method \in {"PUT", "PATCH"} /\ resourceId # NoString THEN "update"
  ELSE IF method = "DELETE" /\ resourceId # NoString THEN "delete"
  ELSE "none"

\* RouteMatch
RouteMatchOf(type, entityName, resourceId, operation, pluginId, customHandler, disabled, pluginRoute) ==
  [type |-> type, entityName |-> entityName, resourceId |-> resourceId,
   operation |-> operation, pluginId |-> pluginId, customHandler |-> customHandler,
   disabled |-> disabled, pluginRoute |-> pluginRoute]

NotFoundMatch ==
  RouteMatchOf("notFound", NoString, NoString, "undefined", "undefined", FALSE, FALSE, 0)

DisabledMatch ==
  RouteMatchOf("notFound", NoString, NoString, "undefined", "undefined", FALSE, TRUE, 0)

HealthMatch ==
  RouteMatchOf("health", NoString, NoString, "undefined", "undefined", FALSE, FALSE, 0)

\* matchPluginEntityRoute returned null
NullMatch ==
  RouteMatchOf("null", NoString, NoString, "undefined", "undefined", FALSE, FALSE, 0)

\* matchPluginRoute(reqMethod, reqPath, routeMethod, routePath)
matchPluginRoute(reqMethod, reqPath, routeMethod, routePath) ==
  LET reqParts == splitPath(reqPath)
      routeParts == splitPath(routePath)
  IN /\ reqMethod = routeMethod
     /\ Len(reqParts) = Len(routeParts)
     /\ \A i \in 1..Len(routeParts) :
          routeParts[i][1] = ":" \/ routeParts[i] = reqParts[i]

\* The key of an entity in entityByPath
fullPathOf(name, meta) ==
  LET entityPath == IF meta.routePath # NoString THEN meta.routePath ELSE pluralize(name)
      base == IF Len(meta.basePath) >= 1 /\ meta.basePath[1] = "/"
              THEN Tail(meta.basePath) ELSE meta.basePath
  IN toLowerCase(IF meta.basePath # NoString THEN base \o <<"/">> \o entityPath
                 ELSE entityPath)

\* entityByPath.get(testPath): the position in entityMeta of the entry set
\* last under that key, 0 if there is none
entityByPathGet(testPath, entities, entityMeta) ==
  LET hits == {i \in 1..Len(entityMeta) :
                 /\ \E e \in 1..Len(entities) : entities[e] = entityMeta[i].name
                 /\ fullPathOf(entityMeta[i].name, entityMeta[i].meta) = testPath}
  IN IF hits = {} THEN 0 ELSE CHOOSE i \in hits : \A j \in hits : j <= i

\* The deepest prefix of the path that matchPluginEntityRoute tries.
MaxDepth == 3

\* routeConfig === "disable" || (typeof routeConfig === "object" && routeConfig.disable)
isDisabled(routeConfig) == routeConfig \in {"disable", "disableObject"}

\* meta.routeConfig?.[operation]
routeConfigFor(meta, operation) ==
  IF operation \in DOMAIN meta.routeConfig THEN meta.routeConfig[operation]
  ELSE "undefined"

RECURSIVE matchPluginEntityRouteFrom(_, _, _, _, _)
\* The loop over depth of matchPluginEntityRoute
matchPluginEntityRouteFrom(method, parts, entities, entityMeta, depth) ==
  IF depth > Len(parts) \/ depth > MaxDepth THEN NullMatch
  ELSE LET resourceId == IF depth + 1 <= Len(parts) THEN parts[depth + 1] ELSE NoString
           testPath == toLowerCase(joinPath(SubSeq(parts, 1, depth)))
           hit == entityByPathGet(testPath, entities, entityMeta)
       IN IF hit = 0
          THEN matchPluginEntityRouteFrom(method, parts, entities, entityMeta, depth + 1)
          ELSE LET meta == entityMeta[hit].meta
                   operation == inferOperation(method, resourceId)
                   routeConfig == routeConfigFor(meta, operation)
               IN IF meta.internal THEN DisabledMatch
                  ELSE IF operation = "none"
                  THEN matchPluginEntityRouteFrom(method, parts, entities, entityMeta,
                                                  depth + 1)
                  ELSE IF isDisabled(routeConfig) THEN DisabledMatch
                  ELSE RouteMatchOf("entity", entityMeta[hit].name, resourceId, operation,
                                    meta.pluginId,
                                    routeConfig \in {"handler", "handlerObject"},
                                    FALSE, 0)

\* matchPluginEntityRoute(req, parts, entities, entityMeta)
matchPluginEntityRoute(method, parts, entities, entityMeta) ==
  matchPluginEntityRouteFrom(method, parts, entities, entityMeta, 1)

\* A slip: a create-shaped request with an id is taken for a create.
matchDefaultRoute_postWithId(method, parts, entities, entityMeta) ==
  LET named == {e \in 1..Len(entities) :
                  /\ ~\E i \in 1..Len(entityMeta) : entityMeta[i].name = entities[e]
                  /\ (pluralize(entities[e]) = parts[1] \/ entities[e] = parts[1])}
      resourceId == IF Len(parts) >= 2 THEN parts[2] ELSE NoString
      operation == IF method = "POST" THEN "create" ELSE inferOperation(method, resourceId)
  IN IF named = {} \/ operation = "none" THEN NotFoundMatch
     ELSE RouteMatchOf("entity", entities[CHOOSE e \in named : \A f \in named : e <= f],
                       resourceId, operation, "undefined", FALSE, FALSE, 0)

\* The standard entity routes of matchRoute: the first entity, in map order
\* and outside entityMeta, whose name or plural is the first segment
matchDefaultRoute(method, parts, entities, entityMeta) ==
  LET named == {e \in 1..Len(entities) :
                  /\ ~\E i \in 1..Len(entityMeta) : entityMeta[i].name = entities[e]
                  /\ (pluralize(entities[e]) = parts[1] \/ entities[e] = parts[1])}
      resourceId == IF Len(parts) >= 2 THEN parts[2] ELSE NoString
      operation == inferOperation(method, resourceId)
  IN IF named = {} \/ operation = "none" THEN NotFoundMatch
     ELSE RouteMatchOf("entity", entities[CHOOSE e \in named : \A f \in named : e <= f],
                       resourceId, operation, "undefined", FALSE, FALSE, 0)

\* The plugin route that claims the request: the first one that matches, 0
\* if none does
pluginRouteFor(method, path, pluginRoutes) ==
  LET hits == {r \in 1..Len(pluginRoutes) :
                 matchPluginRoute(method, <<"/">> \o path,
                                  pluginRoutes[r].method, pluginRoutes[r].path)}
  IN IF hits = {} THEN 0 ELSE CHOOSE r \in hits : \A q \in hits : r <= q

\* A slip: the standard entity routes do not skip the plugin entities.
matchRoute_defaultSeesPluginEntities(req, entities, pluginRoutes, entityMeta) ==
  LET path == trimSlashes(req.path)
      parts == splitPath(path)
      route == pluginRouteFor(req.method, path, pluginRoutes)
      match == IF Len(entityMeta) > 0
               THEN matchPluginEntityRoute(req.method, parts, entities, entityMeta)
               ELSE NullMatch
  IN IF path = Word.health \/ path = <<"_">> \o Word.health THEN HealthMatch
     ELSE IF Len(parts) = 0 THEN NotFoundMatch
     ELSE IF route # 0
     THEN RouteMatchOf("plugin", NoString, NoString, "undefined", "undefined",
                       FALSE, FALSE, route)
     ELSE IF match # NullMatch THEN match
     ELSE matchDefaultRoute(req.method, parts, entities, <<>>)

\* matchRoute(req, entities, options)
matchRoute(req, entities, pluginRoutes, entityMeta) ==
  LET path == trimSlashes(req.path)
      parts == splitPath(path)
      route == pluginRouteFor(req.method, path, pluginRoutes)
      match == IF Len(entityMeta) > 0
               THEN matchPluginEntityRoute(req.method, parts, entities, entityMeta)
               ELSE NullMatch
  IN IF path = Word.health \/ path = <<"_">> \o Word.health THEN HealthMatch
     ELSE IF Len(parts) = 0 THEN NotFoundMatch
     ELSE IF route # 0
     THEN RouteMatchOf("plugin", NoString, NoString, "undefined", "undefined",
                       FALSE, FALSE, route)
     ELSE IF match # NullMatch THEN match
     ELSE matchDefaultRoute(req.method, parts, entities, entityMeta)

\* entityMeta.get(entityName): the position of the entry, 0 if there is none
entityMetaGet(entityName, entityMeta) ==
  LET hits == {i \in 1..Len(entityMeta) : entityMeta[i].name = entityName}
  IN IF hits = {} THEN 0 ELSE CHOOSE i \in hits : TRUE

\* getEntityRoutePath(entityName, entityMeta, pluralize)
getEntityRoutePath(entityName, entityMeta) ==
  LET at == entityMetaGet(entityName, entityMeta) IN
    IF at = 0 THEN <<"/">> \o pluralize(entityName)
    ELSE LET meta == entityMeta[at].meta
             entityPath == IF meta.routePath # NoString THEN meta.routePath
                           ELSE pluralize(entityName)
         IN IF meta.basePath # NoString THEN meta.basePath \o <<"/">> \o entityPath
            ELSE <<"/">> \o entityPath

\* ---- the instance and its requests ----

\* The entities of the instance in map order: two of the application and the
\* two of the plugin "auth".
RouterEntities == <<Word.post, Word.category, Word.user, Word.session>>

\* meta.basePath of the plugin: none, one segment, or three
RouterBasePaths ==
  {NoString, <<"/">> \o Word.auth,
   <<"/">> \o joinPath(<<Word.api, Word.v2, Word.auth>>)}

RouteConfigs ==
  {EmptyRec, [list |-> "disable"], [delete |-> "disableObject"], [read |-> "handler"]}

MetaOf(basePath, routePath, internal, routeConfig) ==
  [pluginId |-> "auth", basePath |-> basePath, routePath |-> routePath,
   internal |-> internal, routeConfig |-> routeConfig]

\* entityMeta in map order: empty, or the plugin's "user" (with any route
\* path, internal flag and route configuration) and its internal "session"
RouterEntityMetas ==
  {<<>>}
    \cup {<<[name |-> Word.user, meta |-> MetaOf(b, rp, int, rc)],
            [name |-> Word.session, meta |-> MetaOf(b, NoString, TRUE, EmptyRec)]>> :
            b \in RouterBasePaths, rp \in {NoString, Word.members, Word.posts},
            int \in BOOLEAN, rc \in RouteConfigs}

\* The plugin routes of the instance
RouterPluginRoutes ==
  {<<>>,
   <<[method |-> "POST", path |-> <<"/">> \o joinPath(<<Word.auth, Word.login>>)],
     [method |-> "GET", path |-> <<"/">> \o joinPath(<<Word.posts, <<":", "i", "d">>, Word.members>>)]>>}

Methods == {"GET", "POST", "PUT", "PATCH", "DELETE", "OPTIONS"}

\* The segments of the request paths: a prefix, a resource and an id or none
PathPrefixes == {<<>>, <<Word.auth>>, <<Word.api, Word.v2, Word.auth>>}

PathResources ==
  {Word.posts, Word.post, Word.categories, Word.users, Word.members, Word.sessions}

PathRests == {<<>>, <<Word.id42>>}

\* req.path: the segments behind a slash, and some paths of their own: in
\* upper case, of a plugin route, with a third segment, with a trailing slash,
\* with a doubled slash, "/" and "/health"
RequestPaths ==
  {<<"/">> \o joinPath(p \o <<r>> \o t) : p \in PathPrefixes, r \in PathResources, t \in PathRests}
    \cup {<<"/">> \o joinPath(<<Word.AuthUpper, Word.users>>),
          <<"/">> \o joinPath(<<Word.auth, Word.login>>),
          <<"/">> \o joinPath(<<Word.posts, Word.id42, Word.members>>),
          <<"/">> \o joinPath(<<Word.posts, Word.id42>>) \o <<"/">>,
          <<"/", "/">> \o Word.posts,
          <<"/">>,
          <<"/">> \o Word.health}

RouterRequests == [method : Methods, path : RequestPaths]

NoRouterRequest == [method |-> "none", path |-> NoString]

RouterInit ==
  /\ \E m \in RouterEntityMetas, r \in RouterPluginRoutes :
       mConfig = [entities |-> RouterEntities, entityMeta |-> m, pluginRoutes |-> r]
  /\ mReq = NoRouterRequest
  /\ mOut = NullMatch
  /\ RegistryIdle
  /\ RulesIdle
  /\ PipelineIdle
  /\ ResolverIdle
  /\ LaterIdle

\* matchRoute(req, entities, options) for the next request
matchRouteCall ==
  /\ mReq = NoRouterRequest
  /\ \E req \in RouterRequests :
       /\ mReq' = req
       /\ mOut' = matchRoute(req, mConfig.entities, mConfig.pluginRoutes, mConfig.entityMeta)
  /\ UNCHANGED <<mConfig, routerOthers>>

\* processRequest has acted on the route; the next request can be matched
routeHandled ==
  /\ mReq # NoRouterRequest
  /\ mReq' = NoRouterRequest
  /\ mOut' = NullMatch
  /\ UNCHANGED <<mConfig, routerOthers>>

RouterNext == matchRouteCall \/ routeHandled

SpecRouter == RouterInit /\ [][RouterNext]_vars

\* ---------------------------------------------------------------------------
\* The instance (index.ts): zapi(config), its middleware chain, processRequest
\* and handleRequest
\* ---------------------------------------------------------------------------

\* What a middleware handler does with ctx and next: the two default ones;
\* "pass" awaits next(); "end" calls ctx.end and returns; "endNext" calls
\* ctx.end and then next(); "nextEnd" awaits next() and then calls ctx.end;
\* "drop" returns without either; "throw" throws; "endThrow" calls ctx.end and
\* then throws.
MiddlewareKinds ==
  {"cors", "security", "pass", "end", "endNext", "nextEnd", "drop", "throw", "endThrow"}

\* The body and status that each kind gives to ctx.end.
EndedBody(kind) == IF kind = "nextEnd" THEN [ended |-> "outer"] ELSE [ended |-> "inner"]
EndedStatus(kind) ==
  CASE kind = "end" -> 200
    [] kind = "endNext" -> 403
    [] kind = "nextEnd" -> 500
    [] OTHER -> 200

\* ctx.end(body, status): ended = true; endResponse = {status, body, headers}
end(m, body, status) ==
  [m EXCEPT !.ended = TRUE,
            !.endResponse = response(status, body),
            !.trace = Append(@, Ev("end", "ctx", [body |-> body, status |-> status], TRUE))]

\* A handler throws the value.
throws(m, kind, error) ==
  [m EXCEPT !.thrown = error, !.trace = Append(@, Ev("thrown", kind, NullRec, FALSE))]

RECURSIVE executeMiddleware(_, _, _, _)
\* executeMiddleware(): m carries ended, endResponse, middlewareIndex (from
\* 1), the trace and what a handler threw
executeMiddleware(m, middleware, req, error) ==
  IF m.ended \/ m.index > Len(middleware) THEN m
  ELSE LET mw == middleware[m.index]
           m1 == [m EXCEPT !.index = @ + 1,
                           !.trace = Append(@, Ev("middleware", mw, NullRec, TRUE))]
       IN CASE mw = "cors" ->
                 IF req.method = "OPTIONS" THEN end(m1, NullRec, 204)
                 ELSE executeMiddleware(m1, middleware, req, error)
            [] mw \in {"security", "pass"} -> executeMiddleware(m1, middleware, req, error)
            [] mw = "end" -> end(m1, EndedBody(mw), EndedStatus(mw))
            [] mw = "endNext" ->
                 executeMiddleware(end(m1, EndedBody(mw), EndedStatus(mw)),
                                   middleware, req, error)
            [] mw = "nextEnd" ->
                 LET r == executeMiddleware(m1, middleware, req, error) IN
                 IF r.thrown # NotThrown THEN r
                 ELSE end(r, EndedBody(mw), EndedStatus(mw))
            [] mw = "drop" -> m1
            [] mw = "throw" -> throws(m1, mw, error)
            [] mw = "endThrow" -> throws(end(m1, EndedBody(mw), EndedStatus(mw)), mw, error)

\* The state of a request before its first middleware.
NoMiddlewareRun ==
  [ended |-> FALSE, endResponse |-> NoResponse, index |-> 1, trace |-> <<>>,
   thrown |-> NotThrown]

\* The headers that the default middleware write into ctx.response.headers.
CorsHeaders ==
  {"Access-Control-Allow-Origin", "Access-Control-Allow-Methods",
   "Access-Control-Allow-Headers"}
SecurityHeaders == {"X-Content-Type-Options", "X-Frame-Options", "X-XSS-Protection"}

\* ctx.response.headers after the middleware of the trace.
ctxHeaders(trace) ==
  UNION {IF trace[i].ev = "middleware" /\ trace[i].name = "cors" THEN CorsHeaders
         ELSE IF trace[i].ev = "middleware" /\ trace[i].name = "security"
         THEN SecurityHeaders ELSE {} : i \in 1..Len(trace)}

\* response.headers: those of ctx when the response was built with
\* headers: ctx.response.headers, none when it was built without headers.
headersOf(resp, trace) == IF resp.headers = "ctx" THEN ctxHeaders(trace) ELSE {}

\* What handleRequest's promise came to: resolved with a response or rejected
\* with what was thrown.
Settled(resp, trace, store) ==
  [resp |-> resp, trace |-> trace, store |-> store, rejected |-> FALSE, thrown |-> NotThrown,
   headers |-> headersOf(resp, trace)]
Rejected(error, trace, store) ==
  [resp |-> NoResponse, trace |-> trace, store |-> store, rejected |-> TRUE, thrown |-> error,
   headers |-> {}]

\* req.params.id of the route as the driver sees it.
idString(resourceId) ==
  IF resourceId = NoString THEN "undefined"
  ELSE IF resourceId = <<"r", "1">> THEN "r1" ELSE "r0"

\* The entities and the plugin routes of the instance.
InstanceEntities == <<Word.post>>
InstanceEntity ==
  [fields |-> PostFields, rules |-> [o \in Operations |-> NoRules], ownerField |-> "undefined"]
InstancePluginRoutes ==
  <<[method |-> "POST", path |-> <<"/">> \o joinPath(<<Word.auth, Word.login>>)]>>

\* The response of the entity's operation, behind the trace of the chain.
routed(out, trace) == Settled(out.resp, trace \o out.trace, out.store)

\* The part of processRequest behind the middleware chain: matchRoute, then
\* the health check, the plugin route, not found, or the entity's operation.
dispatch(config, req, store, trace) ==
  LET route == matchRoute(req, InstanceEntities, InstancePluginRoutes, <<>>)
      t1 == Append(trace, Ev("route", route.type, NullRec, TRUE))
      env == [fault |-> config.fault, production |-> config.production]
  IN IF route.type = "health" THEN Settled(response(200, [status |-> "ok"]), t1, store)
     ELSE IF route.type = "plugin"
     THEN IF config.handler = "throw"
          THEN Settled(handleError(config.thrown, config.production),
                       Append(t1, Ev("handler", "login", NullRec, FALSE)), store)
          ELSE Settled(response(200, [token |-> "t"]),
                       Append(t1, Ev("handler", "login", NullRec, TRUE)), store)
     ELSE IF route.type = "notFound" \/ route.operation = "undefined"
     THEN Settled(notFoundError("Endpoint not found"), t1, store)
     ELSE routed(processEntityRequest(InstanceEntity, config.plugins,
                   [op |-> route.operation, user |-> req.user, body |-> req.body,
                    resourceId |-> idString(route.resourceId)], store, env), t1)

\* A slip: the route is matched although a middleware ended the request.
processRequest_noEarlyReturn(config, req, store, trace) ==
  LET m == executeMiddleware([NoMiddlewareRun EXCEPT !.trace = trace],
                             config.middleware, req, config.thrown)
  IN IF m.thrown # NotThrown THEN Rejected(m.thrown, m.trace, store)
     ELSE dispatch(config, req, store, m.trace)

\* processRequest(req): rejects with what a middleware threw
processRequest(config, req, store, trace) ==
  LET m == executeMiddleware([NoMiddlewareRun EXCEPT !.trace = trace],
                             config.middleware, req, config.thrown)
  IN IF m.thrown # NotThrown THEN Rejected(m.thrown, m.trace, store)
     ELSE IF m.ended THEN Settled(m.endResponse, m.trace, store)
     ELSE dispatch(config, req, store, m.trace)

\* The catch block of handleRequest.
catch(out, config) ==
  IF out.rejected
  THEN Settled(handleError(out.thrown, config.production), out.trace, out.store)
  ELSE out

\* A slip: handleRequest without its try / catch.
instanceHandle_noCatch(config, req, store) ==
  IF config.context = "throw"
  THEN Rejected(config.thrown, <<Ev("context", "config", NullRec, FALSE)>>, store)
  ELSE processRequest(config, req, store,
         IF config.context = "none" THEN <<>>
         ELSE <<Ev("context", "config", NullRec, TRUE)>>)

\* handleRequest(req): config.context, then processRequest, both inside try
instanceHandle(config, req, store) ==
  IF config.context = "throw"
  THEN Settled(handleError(config.thrown, config.production),
               <<Ev("context", "config", NullRec, FALSE)>>, store)
  ELSE catch(processRequest(config, req, store,
               IF config.context = "none" THEN <<>>
               ELSE <<Ev("context", "config", NullRec, TRUE)>>), config)

\* ---- the instances and their requests ----

\* The values that the context function, a middleware, a plugin route
\* handler or the driver throws.
ThrownValues ==
  {PlainError, NevrErrorClass("FORBIDDEN"), PrismaError("P2002"), PrismaError("P2025"),
   PrismaError("P2003"), CodedObject, ThrownString}

\* The plugin of an instance: its before and after hooks and its setup.
PluginWith(before, setup) == [before |-> before, after |-> "none", setup |-> setup]

\* An instance with the default middleware whose parts all work.
PlainConfig ==
  [context |-> "ok", middleware |-> <<"cors", "security">>, plugins |-> <<>>,
   handler |-> "ok", fault |-> NoFault, production |-> FALSE, thrown |-> PlainError]

\* The instances in which one part throws: the context function, a
\* middleware, a hook, the plugin route handler or a driver call.
ThrowingConfigs ==
  UNION {
    {[PlainConfig EXCEPT !.context = "throw", !.thrown = e, !.production = p],
     [PlainConfig EXCEPT !.middleware = <<"cors", "security", "throw">>,
                         !.thrown = e, !.production = p],
     [PlainConfig EXCEPT !.handler = "throw", !.thrown = e, !.production = p]}
      \cup {[PlainConfig EXCEPT !.fault = [call |-> c, error |-> e], !.thrown = e,
                                !.production = p] :
              c \in {"findMany", "findOne", "create", "update", "delete"}}
    : e \in ThrownValues, p \in BOOLEAN}
  \cup {[PlainConfig EXCEPT !.plugins = <<PluginWith(b, "none")>>, !.production = p] :
          b \in {"throw", "deny"}, p \in BOOLEAN}

\* The lists of plugin middleware behind the default ones.
MiddlewareLists ==
  {<<>>, <<"pass">>, <<"end">>, <<"end", "pass">>, <<"pass", "end", "throw">>,
   <<"endNext", "pass">>, <<"nextEnd">>, <<"nextEnd", "end">>, <<"nextEnd", "pass">>,
   <<"drop", "end">>, <<"endThrow">>, <<"nextEnd", "endThrow">>, <<"pass", "endNext", "end">>}

\* The instances with plugin middleware, with and without config.cors and
\* with a hook that stops.
MiddlewareConfigs ==
  {[PlainConfig EXCEPT !.middleware = d \o l, !.context = "none"] :
     d \in {<<"cors", "security">>, <<>>}, l \in MiddlewareLists}

\* The setup functions of the plugins of an instance.
SetupLists ==
  {<<"ok">>, <<"throw">>, <<"ok", "throw">>, <<"none", "ok">>, <<"throw", "ok">>}

BootConfigs ==
  {[PlainConfig EXCEPT !.plugins = [k \in 1..Len(l) |-> PluginWith("none", l[k])]] :
     l \in SetupLists}

InstanceConfigs == ThrowingConfigs \cup MiddlewareConfigs \cup BootConfigs

\* The requests: the five operations of the entity, a record that is not
\* there, the plugin route, the health check, a preflight and no route.
InstanceRequests ==
  {[method |-> "GET", path |-> <<"/">> \o Word.posts, body |-> EmptyRec],
   [method |-> "POST", path |-> <<"/">> \o Word.posts, body |-> [title |-> "hello"]],
   [method |-> "POST", path |-> <<"/">> \o Word.posts, body |-> EmptyRec],
   [method |-> "GET", path |-> <<"/">> \o Word.posts \o <<"/", "r", "1">>, body |-> EmptyRec],
   [method |-> "PUT", path |-> <<"/">> \o Word.posts \o <<"/", "r", "1">>,
    body |-> [title |-> "hello"]],
   [method |-> "DELETE", path |-> <<"/">> \o Word.posts \o <<"/", "r", "1">>, body |-> EmptyRec],
   [method |-> "GET", path |-> <<"/">> \o Word.posts \o <<"/", "r", "0">>, body |-> EmptyRec],
   [method |-> "POST", path |-> <<"/">> \o joinPath(<<Word.auth, Word.login>>),
    body |-> EmptyRec],
   [method |-> "GET", path |-> <<"/">> \o Word.health, body |-> EmptyRec],
   [method |-> "OPTIONS", path |-> <<"/">> \o Word.posts, body |-> EmptyRec],
   [method |-> "GET", path |-> <<"/">> \o Word.members, body |-> EmptyRec]}

NoInstanceRequest == [method |-> "none", path |-> NoString, body |-> EmptyRec]

NoOutcome == Settled(NoResponse, <<>>, NullRec)

\* initializePlugins(plugins, instance): the plugin whose setup is awaited
\* next, and whether the promise is pending, resolved or rejected.
Booting(k) == [next |-> k, state |-> "pending"]

\* zapi(config) has returned the instance; initializePlugins has been called
\* and not awaited, no request has come in.
InstanceInit ==
  /\ iConfig \in InstanceConfigs
  /\ iBoot = Booting(1)
  /\ iStore = [id |-> "r1", title |-> "old", authorId |-> "u1"]
  /\ iReq = NoInstanceRequest
  /\ iOut = NoOutcome
  /\ iTrace = <<>>
  /\ RegistryIdle
  /\ RulesIdle
  /\ PipelineIdle
  /\ ResolverIdle
  /\ RouterIdle
  /\ ReferenceIdle
  /\ QueryIdle
  /\ BuilderIdle

\* One turn of the loop of initializePlugins: the setup of the next plugin
\* returns or throws; a throw rejects the promise, which .catch(console.error)
\* consumes.
initializePlugins ==
  /\ iBoot.state = "pending"
  /\ iBoot' = IF iBoot.next > Len(iConfig.plugins) THEN [iBoot EXCEPT !.state = "resolved"]
              ELSE IF iConfig.plugins[iBoot.next].setup = "throw"
              THEN [iBoot EXCEPT !.state = "rejected"]
              ELSE Booting(iBoot.next + 1)
  /\ UNCHANGED <<iConfig, iStore, iReq, iOut, iTrace, instOthers>>

\* instance.handleRequest(req): the adapter hands over a request whatever
\* became of initializePlugins
instanceHandleRequest ==
  /\ iReq = NoInstanceRequest
  /\ \E r \in InstanceRequests :
       \E out \in {instanceHandle(iConfig, [method |-> r.method, path |-> r.path,
                                            body |-> r.body, user |-> NoUser], iStore)} :
          /\ iReq' = r
          /\ iOut' = [out EXCEPT !.store = NullRec]
          /\ iTrace' = out.trace
          /\ iStore' = out.store
  /\ UNCHANGED <<iConfig, iBoot, instOthers>>

\* The adapter has sent the response.
instanceResponded ==
  /\ iReq # NoInstanceRequest
  /\ iReq' = NoInstanceRequest
  /\ iOut' = NoOutcome
  /\ iTrace' = <<>>
  /\ UNCHANGED <<iConfig, iBoot, iStore, instOthers>>

InstanceNext == initializePlugins \/ instanceHandleRequest \/ instanceResponded

SpecInstance == InstanceInit /\ [][InstanceNext]_vars

\* ---------------------------------------------------------------------------
\* The entity builder (entity.ts: EntityBuilder; fields.ts: FieldBuilder,
\* RelationBuilder, buildFields)
\* ---------------------------------------------------------------------------

\* FieldDef.relation of a field that FieldBuilder built: undefined
NoRelation == [type |-> "undefined", foreignKey |-> <<>>, references |-> "undefined"]

\* FieldBuilder._build()
buildScalar(builder) ==
  [type |-> builder.type, optional |-> builder.optional, unique |-> FALSE,
   relation |-> NoRelation]

\* `${fieldName}Id`, as a sequence of characters
fieldKey(fieldName) ==
  CASE fieldName = "author" -> <<"a", "u", "t", "h", "o", "r", "I", "d">>
    [] fieldName = "comments" -> <<"c", "o", "m", "m", "e", "n", "t", "s", "I", "d">>
    [] fieldName = "profile" -> <<"p", "r", "o", "f", "i", "l", "e", "I", "d">>
    [] OTHER -> <<"I", "d">>

\* RelationBuilder._build(fieldName)
buildRelation(builder, fieldName) ==
  [type |-> "string",
   optional |-> builder.optional \/ builder.type # "belongsTo",
   unique |-> builder.type = "hasOne",
   relation |-> [type |-> builder.type,
                 foreignKey |-> IF builder.foreignKey # NoString THEN builder.foreignKey
                                ELSE fieldKey(fieldName),
                 references |-> "id"]]

\* buildFields(fields)
buildFields(fields) ==
  [name \in DOMAIN fields |->
     IF fields[name].kind = "field" THEN buildScalar(fields[name])
     ELSE buildRelation(fields[name], name)]

\* !name || !/^[a-z][a-zA-Z0-9]*$/.test(name)
invalidName(name) ==
  \/ name = <<>>
  \/ name[1] \notin Range(LowerCase)
  \/ \E i \in 1..Len(name) :
       name[i] \notin Range(LowerCase) \cup Range(UpperCase) \cup Range(Digits)

\* The builder before its constructor has run, or after it threw
NoBuilder ==
  [name |-> <<>>, fields |-> EmptyRec, rules |-> EmptyRec, ownerField |-> <<>>,
   timestamps |-> TRUE, built |-> FALSE]

\* new EntityBuilder(name, fields)
newEntityBuilder(name, fields) ==
  IF invalidName(name) THEN [threw |-> TRUE, builder |-> NoBuilder]
  ELSE [threw |-> FALSE,
        builder |-> [name |-> name, fields |-> buildFields(fields), rules |-> EmptyRec,
                     ownerField |-> <<>>, timestamps |-> TRUE, built |-> TRUE]]

\* The default rules of an owned entity
OwnedRules ==
  [create |-> <<"authenticated">>, read |-> <<"everyone">>, update |-> <<"owner">>,
   delete |-> <<"owner">>, list |-> <<"everyone">>]

\* EntityBuilder.rules(config)
rules(builder, config) == [builder EXCEPT !.rules = Merge(@, config)]

\* this._fields[relationField]?.relation is set
hasRelation(builder, relationField) ==
  /\ relationField \in DOMAIN builder.fields
  /\ builder.fields[relationField].relation # NoRelation

\* EntityBuilder.ownedBy(relationField)
ownedBy(builder, relationField) ==
  IF ~hasRelation(builder, relationField) THEN [threw |-> TRUE, builder |-> builder]
  ELSE [threw |-> FALSE,
        builder |-> [builder EXCEPT
                       !.ownerField = builder.fields[relationField].relation.foreignKey,
                       !.rules = Merge(OwnedRules, @)]]

\* EntityBuilder.noTimestamps()
noTimestamps(builder) == [builder EXCEPT !.timestamps = FALSE]

\* EntityBuilder.build()
build(builder) ==
  [name |-> builder.name,
   config |-> [fields |-> builder.fields, rules |-> builder.rules,
               ownerField |-> builder.ownerField, timestamps |-> builder.timestamps]]

\* ---- the builders and their inputs ----

\* A FieldBuilder, a RelationBuilder, or no builder under that name
FieldOf(type, optional) ==
  [kind |-> "field", type |-> type, foreignKey |-> NoString, optional |-> optional]

RelationOf(type, foreignKey, optional) ==
  [kind |-> "relation", type |-> type, foreignKey |-> foreignKey, optional |-> optional]

NoFieldBuilder == [kind |-> "absent", type |-> "none", foreignKey |-> NoString, optional |-> FALSE]

\* The object literal with the keys that have a builder
Present(c) == [n \in {k \in DOMAIN c : c[k] # NoFieldBuilder} |-> c[n]]

\* The field maps handed to entity(): a title, and any of an author, the
\* comments and a profile
BuilderFields ==
  {Present(c) :
     c \in [title : {FieldOf("string", FALSE), FieldOf("text", TRUE)},
            author : {NoFieldBuilder, RelationOf("belongsTo", NoString, FALSE),
                      RelationOf("belongsTo", <<"u", "s", "e", "r", "I", "d">>, TRUE)},
            comments : {NoFieldBuilder, RelationOf("hasMany", NoString, FALSE)},
            profile : {NoFieldBuilder, RelationOf("hasOne", NoString, FALSE),
                       FieldOf("string", TRUE)}]}

EntityNames ==
  {<<"p", "o", "s", "t">>, <<"p", "2">>, <<"P", "o", "s", "t">>, <<"p", "_", "x">>, <<>>}

RuleConfigs ==
  {[update |-> <<"admin">>],
   [read |-> <<"authenticated">>, create |-> <<"everyone">>]}

OwnedByArguments == {"title", "author", "comments", "profile", "missing"}

NoCall == [op |-> "none", arg |-> "none", threw |-> FALSE]
NoBuilt == [name |-> <<>>, config |-> EmptyRec]

BuilderInit ==
  /\ bBuilder = NoBuilder
  /\ bCall = NoCall
  /\ bEntity = NoBuilt
  /\ RegistryIdle
  /\ RulesIdle
  /\ PipelineIdle
  /\ ResolverIdle
  /\ RouterIdle
  /\ InstanceIdle
  /\ ReferenceIdle
  /\ QueryIdle

\* entity(name, fields): new EntityBuilder(name, fields)
entityCall ==
  /\ ~bBuilder.built
  /\ \E name \in EntityNames, fields \in BuilderFields :
       LET out == newEntityBuilder(name, fields) IN
         /\ bBuilder' = out.builder
         /\ bCall' = [op |-> "entity", arg |-> "name", threw |-> out.threw]
  /\ UNCHANGED <<bEntity, builderOthers>>

\* The builder is in use: constructed and not yet built
InUse == bBuilder.built /\ bCall.op # "build"

\* .rules(config)
rulesCall ==
  /\ InUse
  /\ \E config \in RuleConfigs : bBuilder' = rules(bBuilder, config)
  /\ bCall' = [op |-> "rules", arg |-> "config", threw |-> FALSE]
  /\ UNCHANGED <<bEntity, builderOthers>>

\* .ownedBy(relationField)
ownedByCall ==
  /\ InUse
  /\ \E relationField \in OwnedByArguments :
       LET out == ownedBy(bBuilder, relationField) IN
         /\ bBuilder' = out.builder
         /\ bCall' = [op |-> "ownedBy", arg |-> relationField, threw |-> out.threw]
  /\ UNCHANGED <<bEntity, builderOthers>>

\* .noTimestamps()
noTimestampsCall ==
  /\ InUse
  /\ bBuilder' = noTimestamps(bBuilder)
  /\ bCall' = [op |-> "noTimestamps", arg |-> "none", threw |-> FALSE]
  /\ UNCHANGED <<bEntity, builderOthers>>

\* .build()
buildCall ==
  /\ InUse
  /\ bEntity' = build(bBuilder)
  /\ bCall' = [op |-> "build", arg |-> "none", threw |-> FALSE]
  /\ UNCHANGED <<bBuilder, builderOthers>>

BuilderNext ==
  entityCall \/ rulesCall \/ ownedByCall \/ noTimestampsCall \/ buildCall

SpecBuilder == BuilderInit /\ [][BuilderNext]_vars

\* ---------------------------------------------------------------------------
\* Properties of the request pipeline
\* ---------------------------------------------------------------------------

\* The position of the rule check of the request in its trace, 0 if none ran.
RuleCheckAt ==
  IF \E i \in 1..Len(pTrace) : pTrace[i].ev = "checkRules"
  THEN CHOOSE i \in 1..Len(pTrace) : pTrace[i].ev = "checkRules"
  ELSE 0

RuleDenied == RuleCheckAt # 0 /\ ~pTrace[RuleCheckAt].ok

\* The rule list of the requested operation has a rule that threw for the
\* request: the first of its rules that does not resolve truthy throws.
RuleThrew ==
  LET list == pEntity.rules[pReq.op].list
      ctx == [user |-> pReq.user, resource |-> pTrace[RuleCheckAt].data]
      k == FirstFailing(list, effectiveOwnerField(pEntity), ctx)
  IN k <= Len(list) /\ list[k] = "fnThrow"

DriverWrites ==
  {i \in 1..Len(pTrace) :
     pTrace[i].ev = "driver" /\ pTrace[i].name \in {"create", "update", "delete"}}

\* C3: for each of the five operations, when the rule check denies the request
\* the response is 401 "Authentication required" for a request without a user
\* and 403 "Permission denied" for one with a user, the message a predicate
\* threw replacing the text, and the driver's create, update and delete are
\* not called.
C3_RuleDenialResponse ==
  RuleDenied =>
    /\ pResp.status = IF pReq.user = NoUser THEN 401 ELSE 403
    /\ pResp.message =
         IF RuleThrew THEN ThrownMessage
         ELSE IF pReq.user = NoUser THEN "Authentication required"
         ELSE "Permission denied"
    /\ DriverWrites = {}

\* A user who does not own the record is refused its deletion.
C3_Witness ==
  /\ RuleDenied
  /\ pReq.op = "delete"
  /\ pReq.user # NoUser
  /\ pResp.status = 403
  /\ ~isNull(pStore)

\* The keys the entity declares: its fields and the foreign keys of its
\* belongsTo relations.
DeclaredKeys ==
  DOMAIN pEntity.fields \cup
    {pEntity.fields[f].foreignKey :
       f \in {g \in DOMAIN pEntity.fields : pEntity.fields[g].relation = "belongsTo"}}

\* The key the owner auto-set adds to the input of a create.
OwnerKeys ==
  IF pReq.op = "create" /\ pEntity.ownerField # "undefined" /\ pReq.user # NoUser
  THEN {pEntity.ownerField} ELSE {}

\* C4: on create and update the data handed to driver.create / driver.update
\* has no key that is not a declared field or foreign key of the entity, other
\* than the keys added by the owner auto-set or by a plugin hook.
C4_UnknownKeysNotPersisted ==
  \A i \in DriverWrites :
    pTrace[i].name \in {"create", "update"} =>
      DOMAIN pTrace[i].data \subseteq (DeclaredKeys \cup OwnerKeys \cup HookKeys)

\* The positions of the trace with an event ev of the name.
TraceAt(trace, ev, name) ==
  {i \in 1..Len(trace) : trace[i].ev = ev /\ trace[i].name = name}

\* The stage of the create branch that an event of the trace belongs to.
CreateStage(e) ==
  CASE e.ev = "validate" -> 1
    [] e.ev = "checkRules" -> 2
    [] e.ev = "hook" /\ e.name = "beforeCreate" -> 3
    [] e.ev = "driver" /\ e.name = "create" -> 4
    [] e.ev = "hook" /\ e.name = "afterCreate" -> 5
    [] OTHER -> 0

\* The number of plugins with the hook.
HooksOf(hookName) == {k \in 1..Len(pPlugins) : hasHook(pPlugins[k], hookName)}

\* Nothing failed and no hook stopped the request.
NothingFailed == \A i \in 1..Len(pTrace) : pTrace[i].ok
NothingStopped == \A i \in 1..Len(pTrace) : pTrace[i].ev = "hook" => ~pTrace[i].stopped

\* C13: for create the input is validated first; when validation fails the
\* response is 400 with the field errors and there is no rule check, hook or
\* driver call; the events of a create come in the order validation, rule
\* check, beforeCreate hooks, driver.create, afterCreate hooks, each begun only
\* when the one before passed; and when validation passes, the rules allow,
\* no hook stops and nothing throws, every beforeCreate hook runs, then
\* driver.create once, then every afterCreate hook with the created resource,
\* and the response is 201 with the created resource.
C13_CreateOrder ==
  pReq.op = "create" =>
    LET validation == validateInput(pEntity, pReq.body, "create") IN
    /\ pTrace[1] = Ev("validate", "create", pReq.body, validation.valid)
    /\ ~validation.valid =>
         /\ pResp.status = 400
         /\ pResp.details = validation.errors /\ validation.errors # {}
         /\ Len(pTrace) = 1
    /\ \A i, j \in 1..Len(pTrace) :
         i < j => /\ CreateStage(pTrace[i]) # 0
                  /\ CreateStage(pTrace[i]) <= CreateStage(pTrace[j])
                  /\ pTrace[i].ok
    /\ \A j \in 1..Len(pTrace) :
         /\ CreateStage(pTrace[j]) > 1 => Cardinality(TraceAt(pTrace, "checkRules", "create")) = 1
         /\ CreateStage(pTrace[j]) = 5 => Cardinality(TraceAt(pTrace, "driver", "create")) = 1
    /\ (validation.valid /\ RuleCheckAt # 0 /\ ~RuleDenied /\ NothingFailed /\ NothingStopped) =>
         LET d == TraceAt(pTrace, "driver", "create") IN
         /\ Cardinality(TraceAt(pTrace, "hook", "beforeCreate")) = Cardinality(HooksOf("beforeCreate"))
         /\ Cardinality(d) = 1
         /\ Cardinality(TraceAt(pTrace, "hook", "afterCreate")) = Cardinality(HooksOf("afterCreate"))
         /\ \A i \in TraceAt(pTrace, "hook", "afterCreate") :
              \A k \in d : pTrace[i].resource = driverCreate(pTrace[k].data)
         /\ pResp.status = 201
         /\ \A k \in d : pResp.body = driverCreate(pTrace[k].data)

\* A create that ran a beforeCreate hook, the driver and an afterCreate hook.
C13_Witness ==
  /\ pReq.op = "create"
  /\ pResp.status = 201
  /\ TraceAt(pTrace, "hook", "beforeCreate") # {}
  /\ TraceAt(pTrace, "driver", "create") # {}
  /\ TraceAt(pTrace, "hook", "afterCreate") # {}

\* C27: on create of an entity with an ownerField by a request with a user,
\* the record handed to driver.create has ownerField equal to user.id, also
\* when the body gave another value for it (no hook of the instances
\* overwrites the owner field).
C27_OwnerAutoSet ==
  (pReq.op = "create" /\ pEntity.ownerField # "undefined" /\ pReq.user # NoUser) =>
    \A i \in TraceAt(pTrace, "driver", "create") :
      Get(pTrace[i].data, pEntity.ownerField) = pReq.user.id

\* The body names another owner than the user who creates the record.
C27_Witness ==
  /\ pReq.op = "create"
  /\ pEntity.ownerField = "authorId"
  /\ pReq.user # NoUser
  /\ Get(pReq.body, "authorId") \notin {"undefined", pReq.user.id}
  /\ \E i \in TraceAt(pTrace, "driver", "create") :
       pTrace[i].ok /\ pTrace[i].data.authorId = pReq.user.id
  /\ pResp.status = 201
  /\ pResp.body.authorId = pReq.user.id

\* The names of the hooks.
HookNames ==
  {"beforeCreate", "afterCreate", "beforeUpdate", "afterUpdate", "beforeDelete",
   "afterDelete", "beforeRead", "beforeList"}

\* The hook calls i and j of one event follow one another.
NextHook(name, i, j) ==
  /\ i < j
  /\ ~\E k \in TraceAt(pTrace, "hook", name) : i < k /\ k < j

\* C29: for one request and one event the hooks run one after the other in
\* plugin order: the first is the one of the first plugin that has the hook,
\* each is given the context (input, resource, filters) as the one before
\* left it, no plugin that has the hook is passed over, and after a hook
\* that called stop() no hook of the event runs.
C29_HooksSequential ==
  \A name \in HookNames :
    LET calls == TraceAt(pTrace, "hook", name) IN
    /\ \A i \in calls :
         /\ pTrace[i].plugin \in HooksOf(name)
         /\ (\A j \in calls : i <= j) =>
              \A k \in HooksOf(name) : pTrace[i].plugin <= k
         /\ (\A j \in calls : j <= i) =>
              (pTrace[i].left.stopped \/ ~pTrace[i].ok
                \/ \A k \in HooksOf(name) : k <= pTrace[i].plugin)
    /\ \A i, j \in calls : NextHook(name, i, j) =>
         /\ pTrace[i].plugin < pTrace[j].plugin
         /\ ~\E k \in HooksOf(name) : pTrace[i].plugin < k /\ k < pTrace[j].plugin
         /\ pTrace[j].seen = pTrace[i].left
         /\ ~pTrace[i].left.stopped
         /\ pTrace[i].ok

\* The beforeList hook of the third plugin is given the input that the hook
\* of the first one changed, and its filter reaches the driver.
C29_Witness ==
  /\ pReq.op = "list"
  /\ Len(pPlugins) = 3
  /\ \E i, j \in TraceAt(pTrace, "hook", "beforeList") :
       /\ NextHook("beforeList", i, j)
       /\ pTrace[i].plugin = 1 /\ pTrace[j].plugin = 3
       /\ pTrace[i].seen.input # pTrace[i].left.input
       /\ pTrace[j].seen.input = pTrace[i].left.input
       /\ pTrace[j].left.filters = [published |-> "yes"]
  /\ \E i \in TraceAt(pTrace, "driver", "findMany") :
       pTrace[i].data = [published |-> "yes"]

\* The request that is handled in this step.
Handled(op) == pReq = NoRequest /\ pReq' # NoRequest /\ pReq'.op = op

BeforeHookOf(op) ==
  CASE op = "create" -> "beforeCreate"
    [] op = "update" -> "beforeUpdate"
    [] op = "delete" -> "beforeDelete"
    [] OTHER -> "none"

\* The positions at which a before hook of the request called stop().
StoppedAt ==
  {i \in TraceAt(pTrace, "hook", BeforeHookOf(pReq.op)) : pTrace[i].stopped}

\* C15: when a beforeCreate, beforeUpdate or beforeDelete hook calls stop(),
\* no later hook runs, driver.create / update / delete is not called, and the
\* response is 201 (create) or 200 (update) with the resource of the hook
\* context, or 204 with a null body (delete).
C15_StopSkipsDriver ==
  (pReq.op \in {"create", "update", "delete"} /\ StoppedAt # {}) =>
    \A s \in StoppedAt :
      /\ s = Len(pTrace)
      /\ DriverWrites = {}
      /\ \A i \in 1..Len(pTrace) :
           pTrace[i].ev = "hook" => pTrace[i].name = BeforeHookOf(pReq.op)
      /\ pResp.status = (CASE pReq.op = "create" -> 201
                           [] pReq.op = "update" -> 200
                           [] pReq.op = "delete" -> 204)
      /\ pResp.body = IF pReq.op = "delete" THEN NullRec ELSE pTrace[s].result
      /\ pStore = IF pReq.op = "create" THEN pStore ELSE pTrace[s].resource

\* The first of two plugins stops an update; the hook of the second is skipped.
C15_Witness ==
  /\ pReq.op = "update"
  /\ StoppedAt # {}
  /\ Len(pPlugins) = 2
  /\ pResp.status = 200
  /\ pResp.body = pStore

\* ---------------------------------------------------------------------------
\* Properties of the instance
\* ---------------------------------------------------------------------------

\* The positions of the trace at which something threw.
Failures ==
  {i \in 1..Len(iTrace) :
     /\ iTrace[i].ev \in {"context", "thrown", "handler", "hook", "driver"}
     /\ ~iTrace[i].ok}

\* The value thrown at position i of the trace.
ThrownAt(i) ==
  CASE iTrace[i].ev = "hook" -> hookThrows(iConfig.plugins[1].before)
    [] iTrace[i].ev = "driver" -> iConfig.fault.error
    [] OTHER -> iConfig.thrown

\* The response is the one of the driver's error codes: 409, 404, or 400
\* with a detail on the field "relation".
DriverErrorResponse(error) ==
  CASE error.code = "P2002" -> iOut.resp.status = 409 /\ iOut.resp.code = "CONFLICT"
    [] error.code = "P2025" -> iOut.resp.status = 404 /\ iOut.resp.code = "NOT_FOUND"
    [] error.code = "P2003" ->
         /\ iOut.resp.status = 400
         /\ \E d \in iOut.resp.details : d.field = "relation"

\* A response with the status 500, whose message in production is the
\* generic one.
InternalErrorResponse ==
  /\ iOut.resp.status = 500
  /\ iOut.resp.code = "INTERNAL_ERROR"
  /\ iConfig.production => iOut.resp.message \in {"Internal server error", "Unknown error"}

\* C11: handleRequest never rejects; when the context function, a
\* middleware, a hook, a plugin route handler or a driver call throws, it
\* resolves to an error response: 409 for a unique violation, 404 for a
\* missing record on write, 400 with a detail on "relation" for a foreign-key
\* violation, the status of its own code for a thrown NevrErrorClass, and 500
\* for any other thrown value.
C11_ErrorsBecomeResponses ==
  iReq # NoInstanceRequest =>
    /\ ~iOut.rejected
    /\ iOut.resp # NoResponse
    /\ \A i \in Failures :
         LET error == ThrownAt(i) IN
         IF error.kind = "NevrError"
         THEN iOut.resp.status = 403 /\ iOut.resp.code = error.code
         ELSE IF error.code \in {"P2002", "P2025", "P2003"} THEN DriverErrorResponse(error)
         ELSE InternalErrorResponse

\* C11 as stated: every thrown value that is not one of the three driver
\* errors becomes a 500 response.
C11_EveryOtherErrorIs500 ==
  iReq # NoInstanceRequest =>
    /\ ~iOut.rejected
    /\ iOut.resp # NoResponse
    /\ \A i \in Failures :
         LET error == ThrownAt(i) IN
         IF error.kind # "NevrError" /\ error.code \in {"P2002", "P2025", "P2003"}
         THEN DriverErrorResponse(error)
         ELSE InternalErrorResponse

\* driver.delete threw a foreign-key violation and the response is 400.
C11_Witness ==
  /\ iReq.method = "DELETE"
  /\ \E i \in Failures : iTrace[i].ev = "driver" /\ ThrownAt(i) = PrismaError("P2003")
  /\ iOut.resp.status = 400
  /\ ~iOut.rejected

\* The positions of the trace at which a middleware called ctx.end.
Ends == {i \in 1..Len(iTrace) : iTrace[i].ev = "end"}
FirstEnd == CHOOSE i \in Ends : \A j \in Ends : i <= j
LastEnd == CHOOSE i \in Ends : \A j \in Ends : j <= i

\* No middleware starts after the first ctx.end, and the request sees no
\* route matching, validation, rule check, hook, handler or driver call.
EndSkipsTheRest ==
  /\ \A i \in 1..Len(iTrace) : i > FirstEnd => iTrace[i].ev # "middleware"
  /\ \A i \in 1..Len(iTrace) :
       iTrace[i].ev \notin {"route", "validate", "checkRules", "hook", "handler", "driver"}

\* The response is the body and the status of the last ctx.end.
RespondsWithEnded ==
  /\ ~iOut.rejected
  /\ iOut.resp.status = iTrace[LastEnd].data.status
  /\ iOut.resp.body = iTrace[LastEnd].data.body
  /\ iOut.resp.code = "none"

\* C12: when a middleware calls ctx.end(body, status), every middleware that
\* has not yet started is skipped and there is no route matching, rule check,
\* hook or driver call for the request; and, unless a middleware throws after
\* the call, the response has exactly the body and status of the last
\* ctx.end.
C12_EndShortCircuits ==
  (iReq # NoInstanceRequest /\ Ends # {}) =>
    /\ EndSkipsTheRest
    /\ (\A i \in 1..Len(iTrace) : iTrace[i].ev = "thrown" => i < LastEnd) => RespondsWithEnded

\* C12 as stated: the response has the ended body and status whenever a
\* middleware called ctx.end.
C12_AlwaysRespondsWithEnded ==
  (iReq # NoInstanceRequest /\ Ends # {}) => EndSkipsTheRest /\ RespondsWithEnded

\* A plugin middleware ends the request behind the default ones, and the
\* middleware behind it is skipped.
C12_Witness ==
  /\ iReq.method = "POST"
  /\ iConfig.middleware = <<"cors", "security", "end", "pass">>
  /\ Ends # {}
  /\ iOut.resp.status = 200
  /\ iOut.resp.body = [ended |-> "inner"]

\* The step is a request that gets as far as an entity or a plugin route.
ServesRoute ==
  /\ iReq = NoInstanceRequest /\ iReq' # NoInstanceRequest
  /\ \E i \in 1..Len(iTrace') :
       iTrace'[i].ev = "route" /\ iTrace'[i].name \in {"entity", "plugin"}

\* C18: once the setup of a plugin has thrown, handleRequest serves no
\* entity route and no plugin route.
C18_FailedInitIsFatal == [][iBoot.state = "rejected" => ~ServesRoute]_vars

\* The request ran through the default CORS and security middleware.
RanDefaultMiddleware ==
  /\ \E i \in 1..Len(iTrace) : iTrace[i].ev = "middleware" /\ iTrace[i].name = "cors"
  /\ \E i \in 1..Len(iTrace) : iTrace[i].ev = "middleware" /\ iTrace[i].name = "security"

\* C22: every response of handleRequest to a request that ran through the
\* default CORS and security middleware carries the headers they set,
\* whatever its status.
C22_ResponsesCarryHeaders ==
  (iReq # NoInstanceRequest /\ RanDefaultMiddleware) =>
    (CorsHeaders \cup SecurityHeaders) \subseteq iOut.headers

\* ---------------------------------------------------------------------------
\* Properties of the extension resolver
\* ---------------------------------------------------------------------------

\* The declared schema by value: every entity with its flags and, for every
\* field, the field definition object it refers to.
SchemaValue ==
  [e \in DOMAIN xSchema |->
     [xSchema[e] EXCEPT !.fields = [f \in DOMAIN @ |-> xHeap[@[f]]]]]

\* C7: resolvePlugin never mutates the declared schema: whatever the
\* extension, the entity map of plugin.schema and every field definition
\* object in it are after the call what they were before it.
C7_SchemaNotMutated == [][SchemaValue' = SchemaValue]_vars

\* The name under which an entity instruction leaves its entity.
TargetName(item) ==
  IF item.ext.rename # "undefined" THEN item.ext.rename ELSE item.name

\* The instructions of the extension that ask to remove a required entity of
\* the declared schema.
RequiredRemovals ==
  {i \in 1..Len(xExt.entities) :
     /\ xExt.entities[i].ext.remove
     /\ xExt.entities[i].name \in DOMAIN xSchema
     /\ xSchema[xExt.entities[i].name].required}

\* The field instructions, as <<i, j>>, that ask to remove a locked field of
\* an entity of the declared schema.
LockedRemovals ==
  {p \in (1..Len(xExt.entities)) \X (1..MaxFieldExts + 1) :
     LET item == xExt.entities[p[1]] IN
       /\ p[2] <= Len(item.ext.fields)
       /\ item.ext.fields[p[2]].ext.remove
       /\ item.name \in DOMAIN xSchema
       /\ item.ext.fields[p[2]].name \in DOMAIN xSchema[item.name].fields
       /\ xHeap[xSchema[item.name].fields[item.ext.fields[p[2]].name]].locked}

\* C8: a remove instruction on a required entity leaves that entity in the
\* resolved plugin (under its name, or the name the same instruction renames
\* it to), and a remove instruction on a locked field leaves that field in
\* the resolved entity.
C8_RemoveIsRefused ==
  (xOut.done /\ xExt # NoExtension) =>
    /\ \A i \in RequiredRemovals :
         \/ xExt.entities[i].name \in DOMAIN xOut.schema
         \/ TargetName(xExt.entities[i]) \in DOMAIN xOut.schema
    /\ \A p \in LockedRemovals :
         LET item == xExt.entities[p[1]] IN
           TargetName(item) \in DOMAIN xOut.schema =>
             item.ext.fields[p[2]].name \in DOMAIN xOut.schema[TargetName(item)].fields

\* The field instructions, as <<i, j>>, that ask only to rename a locked field
\* of an entity of the declared schema.
LockedRenames ==
  {p \in (1..Len(xExt.entities)) \X (1..MaxFieldExts + 1) :
     LET item == xExt.entities[p[1]] IN
       /\ p[2] <= Len(item.ext.fields)
       /\ item.ext.fields[p[2]].ext.rename # "undefined"
       /\ item.ext.fields[p[2]].ext.add = "undefined"
       /\ ~item.ext.fields[p[2]].ext.remove
       /\ ~item.ext.remove
       /\ item.ext.fields[p[2]].name \notin DOMAIN item.ext.addFields
       /\ item.name \in DOMAIN xSchema
       /\ item.ext.fields[p[2]].name \in DOMAIN xSchema[item.name].fields
       /\ xHeap[xSchema[item.name].fields[item.ext.fields[p[2]].name]].locked}

\* C23: a rename instruction on a locked field is refused: the resolved
\* entity still has the field under its original name.
C23_LockedRenameRefused ==
  (xOut.done /\ xExt # NoExtension) =>
    \A p \in LockedRenames :
      LET item == xExt.entities[p[1]] IN
        TargetName(item) \in DOMAIN xOut.schema =>
          item.ext.fields[p[2]].name \in DOMAIN xOut.schema[TargetName(item)].fields

\* The instructions of the extension that rename an entity of the declared
\* schema to another name and are the last word on it: the instruction does
\* not remove the entity, no earlier one has renamed or removed it, and no
\* later one addresses the entity under its new name.
EntityRenames ==
  {i \in 1..Len(xExt.entities) :
     LET item == xExt.entities[i] IN
       /\ item.name \in DOMAIN xSchema
       /\ item.ext.rename \notin {"undefined", item.name}
       /\ ~(item.ext.remove /\ ~xSchema[item.name].required)
       /\ \A j \in 1..Len(xExt.entities) :
            j < i => xExt.entities[j].name # item.name /\ TargetName(xExt.entities[j]) # item.name
       /\ \A j \in 1..Len(xExt.entities) :
            j > i => xExt.entities[j].name \notin {item.name, item.ext.rename}}

\* The entity renamed from E to N is in the resolved plugin as N and not as
\* E, and entityMeta[N].originalName is E.
RenamedIn(E, N) ==
  /\ N \in DOMAIN xOut.schema
  /\ N \in DOMAIN xOut.entities
  /\ E \notin DOMAIN xOut.schema
  /\ E \notin DOMAIN xOut.entityMeta
  /\ xOut.entityMeta[N].originalName = E

Untouched ==
  {d \in DOMAIN xSchema :
     \A i \in 1..Len(xExt.entities) :
       xExt.entities[i].name # d /\ TargetName(xExt.entities[i]) # d}

\* C26: every entity of extension.addEntities is in the resolved plugin under
\* pluginId_entityName with originalName = entityName, and adding it replaces
\* or removes no entity that the schema of the plugin declares.
C26_AddEntitiesNamespaced ==
  (xOut.done /\ xExt # NoExtension) =>
    /\ \A a \in DOMAIN xExt.addEntities :
         /\ namespaced(PluginId, a) \in DOMAIN xOut.schema
         /\ namespaced(PluginId, a) \in DOMAIN xOut.entityMeta
         /\ xOut.entityMeta[namespaced(PluginId, a)].originalName = a
    /\ \A d \in Untouched :
         /\ d \in DOMAIN xOut.schema
         /\ xOut.schema[d] = xSchema[d]

\* ---------------------------------------------------------------------------
\* Properties of the router
\* ---------------------------------------------------------------------------

Matched == mReq # NoRouterRequest

ReqPath == trimSlashes(mReq.path)
ReqParts == splitPath(ReqPath)

IsHealth == ReqPath \in {Word.health, <<"_">> \o Word.health}

ClaimedByPluginRoute == pluginRouteFor(mReq.method, ReqPath, mConfig.pluginRoutes) # 0

\* The entries of entityMeta whose entity is in the entity map.
PluginEntries ==
  {i \in 1..Len(mConfig.entityMeta) :
     \E e \in 1..Len(mConfig.entities) : mConfig.entities[e] = mConfig.entityMeta[i].name}

IsPluginEntity(name) ==
  \E i \in 1..Len(mConfig.entityMeta) : mConfig.entityMeta[i].name = name

\* The operation the spec gives for a method and an id, "none" for every
\* other combination.
ExpectedOperation(method, id) ==
  CASE method = "GET" -> (IF id = NoString THEN "list" ELSE "read")
    [] method = "POST" -> (IF id = NoString THEN "create" ELSE "none")
    [] method \in {"PUT", "PATCH"} -> (IF id = NoString THEN "none" ELSE "update")
    [] method = "DELETE" -> (IF id = NoString THEN "none" ELSE "delete")
    [] OTHER -> "none"

\* The segments of the namespaced path of a plugin entity: its base path and
\* its route path or plural.
EntityPathParts(i) ==
  splitPath(fullPathOf(mConfig.entityMeta[i].name, mConfig.entityMeta[i].meta))

\* The request path addresses the plugin entity: it starts, whatever the
\* case of the letters, with the entity's namespaced path.
Addresses(i) ==
  /\ Len(ReqParts) >= Len(EntityPathParts(i))
  /\ \A k \in 1..Len(EntityPathParts(i)) : toLowerCase(ReqParts[k]) = EntityPathParts(i)[k]

\* The segment behind the entity's path.
AddressedId(i) ==
  IF Len(ReqParts) > Len(EntityPathParts(i)) THEN ReqParts[Len(EntityPathParts(i)) + 1]
  ELSE NoString

\* The request asks for an operation of the entity that its route
\* configuration disables.
AsksDisabled(i) ==
  LET op == ExpectedOperation(mReq.method, AddressedId(i)) IN
    /\ op # "none"
    /\ op \in DOMAIN mConfig.entityMeta[i].meta.routeConfig
    /\ mConfig.entityMeta[i].meta.routeConfig[op] \in {"disable", "disableObject"}

\* C9: matchRoute returns no entity match for a plugin entity that is
\* internal nor for an operation its route configuration disables, and a
\* request whose path addresses such an entity or operation (and no other
\* plugin entity, plugin route or the health check) resolves to notFound with
\* disabled set.
C9_InternalAndDisabledNotRouted ==
  (Matched /\ ~IsHealth /\ ~ClaimedByPluginRoute) =>
    /\ \A i \in PluginEntries :
         (mOut.type = "entity" /\ mOut.entityName = mConfig.entityMeta[i].name) =>
           /\ ~mConfig.entityMeta[i].meta.internal
           /\ ~(/\ mOut.operation \in DOMAIN mConfig.entityMeta[i].meta.routeConfig
                /\ mConfig.entityMeta[i].meta.routeConfig[mOut.operation]
                     \in {"disable", "disableObject"})
    /\ \A i \in PluginEntries :
         (/\ Addresses(i)
          /\ \A j \in PluginEntries \ {i} : ~Addresses(j)
          /\ (mConfig.entityMeta[i].meta.internal \/ AsksDisabled(i))) =>
           (mOut.type = "notFound" /\ mOut.disabled)

\* C28: a request resolves to an entity of entityMeta only through the
\* plugin entity routes, when a prefix of its path is (in any case of the
\* letters) the entity's namespaced path: its base path and its route path or
\* plural. The standard first-segment routes never yield such an entity.
C28_PluginEntityOnlyByNamespacedPath ==
  (Matched /\ mOut.type = "entity" /\ IsPluginEntity(mOut.entityName)) =>
    /\ mOut.pluginId = "auth"
    /\ \E i \in PluginEntries :
         /\ mConfig.entityMeta[i].name = mOut.entityName
         /\ Addresses(i)
         /\ mOut.resourceId = AddressedId(i)

\* /users is asked of an instance whose plugin entity user lives under
\* /auth: the first segment is the plural of user, and nothing is found.
C28_Witness ==
  /\ Matched
  /\ ReqParts = <<Word.users>>
  /\ mReq.method = "GET"
  /\ ~ClaimedByPluginRoute
  /\ IsPluginEntity(Word.user)
  /\ \A i \in PluginEntries : ~Addresses(i)
  /\ mOut.type = "notFound"

\* The path that route generation gives a plugin entity.
GeneratedPath(i) == getEntityRoutePath(mConfig.entityMeta[i].name, mConfig.entityMeta)

\* The plugin entity is not internal and its list route is not disabled.
ListServed(i) ==
  /\ ~mConfig.entityMeta[i].meta.internal
  /\ ~isDisabled(routeConfigFor(mConfig.entityMeta[i].meta, "list"))

\* C30: a GET request to the path that getEntityRoutePath computes for a
\* plugin entity that is not internal and whose list route is not disabled is
\* resolved by matchRoute to that entity with the operation list, whatever
\* the base path and the route path.
C30_GenerationAgreesWithMatching ==
  \A i \in PluginEntries :
    (Matched /\ mReq.method = "GET" /\ mReq.path = GeneratedPath(i) /\ ListServed(i)) =>
      /\ mOut.type = "entity"
      /\ mOut.entityName = mConfig.entityMeta[i].name
      /\ mOut.operation = "list"

\* The same, for the entities whose generated path has at most three
\* segments.
GenerationAgreesWithinDepth ==
  \A i \in PluginEntries :
    (/\ Matched /\ mReq.method = "GET" /\ mReq.path = GeneratedPath(i) /\ ListServed(i)
     /\ Len(splitPath(GeneratedPath(i))) <= MaxDepth) =>
      /\ mOut.type = "entity"
      /\ mOut.entityName = mConfig.entityMeta[i].name
      /\ mOut.operation = "list"

\* The entities outside entityMeta whose name or plural is the first segment.
DefaultCandidates ==
  {mConfig.entities[e] : e \in {f \in 1..Len(mConfig.entities) :
     /\ ~IsPluginEntity(mConfig.entities[f])
     /\ (mConfig.entities[f] = ReqParts[1] \/ pluralize(mConfig.entities[f]) = ReqParts[1])}}

\* Neither the health check, a plugin route nor the path of a plugin entity
\* claims the request.
ReachesDefaultRouting ==
  /\ Matched
  /\ Len(ReqParts) >= 1
  /\ ~IsHealth
  /\ ~ClaimedByPluginRoute
  /\ (Len(mConfig.entityMeta) > 0 =>
        matchPluginEntityRoute(mReq.method, ReqParts, mConfig.entities,
                               mConfig.entityMeta) = NullMatch)

\* C10: for a non-plugin entity whose name or plural is the first segment of
\* a path that reaches the default routing, GET without id is list, GET with
\* id read, POST without id create, PUT or PATCH with id update, DELETE with
\* id delete, the second segment being the resourceId; every other method and
\* id combination is notFound.
C10_DefaultOperationTable ==
  (ReachesDefaultRouting /\ DefaultCandidates # {}) =>
    LET id == IF Len(ReqParts) >= 2 THEN ReqParts[2] ELSE NoString
        op == ExpectedOperation(mReq.method, id)
    IN IF op = "none" THEN mOut.type = "notFound"
       ELSE /\ mOut.type = "entity"
            /\ mOut.operation = op
            /\ mOut.resourceId = id
            /\ mOut.entityName \in DefaultCandidates

\* GET /posts/42 is a read of post 42, with plugin entities in the instance.
C10_Witness ==
  /\ ReachesDefaultRouting
  /\ Len(mConfig.entityMeta) > 0
  /\ mReq.method = "GET"
  /\ ReqParts = <<Word.posts, Word.id42>>
  /\ mOut.type = "entity"
  /\ mOut.entityName = Word.post
  /\ mOut.operation = "read"
  /\ mOut.resourceId = Word.id42

\* ---------------------------------------------------------------------------
\* Properties of the registry and the initializer
\* ---------------------------------------------------------------------------

RegisteredIds(reg) == {reg[i].id : i \in 1..Len(reg)}

DepsOf(reg, id) == Range(registryGet(reg, id).deps)

\* Every declared dependency is a registered plugin.
NoMissingDependency(reg) ==
  \A i \in 1..Len(reg) : Range(reg[i].deps) \subseteq RegisteredIds(reg)

\* The registered plugins that the plugins of S depend on directly.
DepSucc(reg, S) ==
  {d \in RegisteredIds(reg) : \E i \in 1..Len(reg) : reg[i].id \in S /\ d \in Range(reg[i].deps)}

RECURSIVE DepReach(_, _, _)
\* The plugins reached from S along at least one and at most n dependency edges.
DepReach(reg, S, n) ==
  IF n = 0 THEN {}
  ELSE DepSucc(reg, S) \cup DepReach(reg, DepSucc(reg, S), n - 1)

\* The dependency graph of the registered plugins contains a cycle.
HasCycle(reg) ==
  \E id \in RegisteredIds(reg) : id \in DepReach(reg, {id}, Len(reg))

\* The positions of the log at which event ev of plugin id is recorded.
LogAt(ev, id) == {k \in 1..Len(log) : log[k].ev = ev /\ log[k].id = id}

\* C1: when the dependency graph of the registered plugins is acyclic and no
\* dependency is missing, then whatever the registration order, the call does
\* not reject in the sort, every lifecycle hook of a plugin is invoked only
\* after each plugin it depends on has completed its hooks and been marked
\* initialized, no plugin is initialized twice in one call, and when the call
\* resolves every registered plugin has been initialized exactly once.
C1_DependencyOrder ==
  (pc # "idle" /\ ~HasCycle(registry) /\ NoMissingDependency(registry)) =>
    /\ initError \notin {"circular", "missing"}
    /\ \A k \in 1..Len(log) : \A d \in DepsOf(registry, log[k].id) :
         /\ \E j \in 1..(k - 1) : log[j] = [ev |-> "mark", id |-> d, ok |-> TRUE]
         /\ \A j \in LogAt("onInit", d) : j < k /\ log[j].ok
    /\ \A id \in PluginIds : \A ev \in {"onRegister", "onInit", "mark"} :
         Cardinality(LogAt(ev, id)) <= 1
    /\ pc = "resolved" =>
         \A id \in RegisteredIds(registry) :
           /\ Cardinality(LogAt("mark", id)) = 1
           /\ registryGet(registry, id).initialized

\* A resolved call over a plugin registered before the plugin it depends on,
\* both with lifecycle hooks.
C1_Witness ==
  /\ pc = "resolved"
  /\ Len(registry) >= 2
  /\ registry[2].id \in Range(registry[1].deps)
  /\ LogAt("onInit", registry[1].id) # {}
  /\ LogAt("onInit", registry[2].id) # {}

\* C2 (as stated): whenever the dependency graph contains a cycle, the call
\* rejects with the circular-dependency error, and no lifecycle hook has been
\* invoked and no plugin marked initialized by the call.
C2_CycleRejectsCircular ==
  (pc # "idle" /\ HasCycle(registry)) =>
    /\ pc = "rejected"
    /\ initError = "circular"
    /\ log = <<>>

\* C2 (amended): whenever the dependency graph contains a cycle, the call
\* rejects in the sort, before any lifecycle hook is invoked or any plugin is
\* marked initialized by the call; the error is the circular-dependency error
\* unless the traversal first meets a dependency on an unregistered plugin,
\* in which case it is the missing-dependency error.
C2_CycleRejects ==
  (pc # "idle" /\ HasCycle(registry)) =>
    /\ pc = "rejected"
    /\ initError \in {"circular", "missing"}
    /\ NoMissingDependency(registry) => initError = "circular"
    /\ log = <<>>

\* A rejected call over two plugins that depend on each other.
C2_Witness ==
  /\ pc = "rejected"
  /\ initError = "circular"
  /\ Len(registry) = 2
  /\ registry[2].id \in Range(registry[1].deps)
  /\ registry[1].id \in Range(registry[2].deps)

\* The plugin an entry of the registry holds.
PluginOf(entry) == [id |-> entry.id, deps |-> entry.deps]

\* A registration call is made in this step.
RegistrationCalled(fn) == regCall = NoRegCall /\ regCall'.fn = fn

\* C16: registerPluginFactory and registerPluginInstance throw exactly when
\* the id is already in their registry and then leave the registry as it
\* is; no id has two entries, and an entry stays the one that was registered
\* first for as long as its id is registered.
C16_DuplicateRegistrationThrows ==
  [][/\ RegistrationCalled("registerPluginInstance") =>
          /\ regCall'.threw <=> registryHas(registry, regCall'.id)
          /\ regCall'.threw => registry' = registry
          /\ ~regCall'.threw => registryHas(registry', regCall'.id)
     /\ RegistrationCalled("registerPluginFactory") =>
          /\ regCall'.threw <=> regCall'.id \in DOMAIN factories
          /\ regCall'.threw => factories' = factories
          /\ ~regCall'.threw => regCall'.id \in DOMAIN factories'
     /\ \A i, j \in 1..Len(registry') : registry'[i].id = registry'[j].id => i = j
     /\ \A id \in RegisteredIds(registry) \cap RegisteredIds(registry') :
          PluginOf(registryGet(registry', id)) = PluginOf(registryGet(registry, id))
     /\ \A id \in DOMAIN factories \cap DOMAIN factories' :
          factories'[id] = factories[id]]_vars

\* A second factory is refused for an id while plugin instances are registered.
C16_Witness ==
  /\ regCall.fn = "registerPluginFactory"
  /\ regCall.threw
  /\ Len(registry) = 2

\* The call in flight was rejected by a lifecycle hook that threw.
HookFailed == pc = "rejected" /\ initError \notin {"circular", "missing"}

ThunkInvoked == refOut = NoRefOut /\ refOut'.fn = "thunk"

\* resolveEntityRef is called in this step on a reference "pluginId.entityName".
RefResolved ==
  /\ refOut = NoRefOut
  /\ refOut'.fn = "resolveEntityRef"
  /\ refOut'.thunk.pluginId \notin {"null", ""}

InvokedKey == cacheKey(refOut'.thunk.pluginId, refOut'.thunk.entityName)

\* C19: a thunk invoked while its key is not cached and its plugin is not
\* registered throws "Plugin not found" and caches nothing; a thunk that
\* resolves returns a placeholder named after the entity and caches it under
\* "id.name"; a thunk whose key is cached returns the cached object, whether
\* or not the plugin is still registered; and a cached object is never
\* replaced or dropped other than by all of the cache being cleared.
C19_ThunkMemoized ==
  [][/\ (ThunkInvoked /\ InvokedKey \notin DOMAIN entityCache
          /\ ~registryHas(registry, refOut'.thunk.pluginId)) =>
          /\ refOut'.threw = "Plugin not found"
          /\ entityCache' = entityCache
     /\ (ThunkInvoked /\ InvokedKey \in DOMAIN entityCache) =>
          /\ refOut'.threw = "none"
          /\ refOut'.entity = entityCache[InvokedKey]
          /\ entityCache' = entityCache
     /\ (ThunkInvoked /\ refOut'.threw = "none") =>
          /\ InvokedKey \in DOMAIN entityCache'
          /\ entityCache'[InvokedKey] = refOut'.entity
          /\ refOut'.entity.name = refOut'.thunk.entityName
     /\ (ThunkInvoked /\ refOut'.threw # "none") => entityCache' = entityCache
     /\ \/ \A k \in DOMAIN entityCache :
             k \in DOMAIN entityCache' /\ entityCache'[k] = entityCache[k]
        \/ DOMAIN entityCache' = {}]_vars

\* The thunk returns its placeholder from the cache while no plugin is
\* registered.
C19_Witness ==
  /\ refOut # NoRefOut
  /\ refOut.threw = "none"
  /\ refOut.entity.ref = 1
  /\ refObjects = 1
  /\ registry = <<>>

\* C24: resolveEntityRef on "pluginId.entityName" behaves as the thunk does:
\* it fails with a not-found error when the key is not cached and the plugin
\* or the entity is missing, and when it succeeds the entity it returns is
\* the one cached under the key, so that a later resolution in either form
\* returns the same object.
C24_StringRefAsThunk ==
  [][RefResolved =>
       /\ (InvokedKey \notin DOMAIN entityCache
            /\ ~schemaHas(registry, refOut'.thunk.pluginId, refOut'.thunk.entityName)) =>
            refOut'.threw # "none"
       /\ (refOut'.threw = "none") =>
            /\ InvokedKey \in DOMAIN entityCache'
            /\ entityCache'[InvokedKey] = refOut'.entity]_vars

\* ---------------------------------------------------------------------------
\* Properties of the query parameters
\* ---------------------------------------------------------------------------

\* The key of the two aliases that is applied last: the second when it is a
\* string, else the first.
LastOf(first, second) == IF isString(second) THEN second ELSE first

\* The value is absent, no string, or a string that is no number.
NotANumber(value) == ~isString(value) \/ parseInt(value.text).nan

\* C20: take is within [1, 100], and is 20 when the limit (or take) is absent
\* or not a number; skip is at least 0, and is 0 when neither offset, skip nor
\* page is given; when a page p >= 1 is given, skip is (p - 1) * take whether
\* or not offset or skip is given too.
C20_PaginationBounds ==
  qOut # NoPagination =>
    /\ qOut.take \in 1..100
    /\ NotANumber(LastOf(qQuery.limit, qQuery.take)) => qOut.take = 20
    /\ qOut.skip >= 0
    /\ (\A k \in {"offset", "skip", "page"} : ~isString(qQuery[k])) => qOut.skip = 0
    /\ (isString(qQuery.page) /\ ~parseInt(qQuery.page.text).nan
          /\ parseInt(qQuery.page.text).n >= 1) =>
         qOut.skip = (parseInt(qQuery.page.text).n - 1) * qOut.take

\* limit=500&offset=10&page=3: the limit is clamped and the page wins.
C20_Witness ==
  /\ qQuery.limit = Str(<<"5", "0", "0">>)
  /\ qQuery.offset = Str(<<"1", "0">>)
  /\ qQuery.page = Str(<<"3">>)
  /\ qOut = [take |-> 100, skip |-> 200]


\* ---------------------------------------------------------------------------
\* Properties of the entity builder
\* ---------------------------------------------------------------------------

\* The call made last is ownedBy with this field as its argument.
OwnedByCalled(f) == bBuilder.built /\ bCall.op = "ownedBy" /\ bCall.arg = f

\* The field is a belongsTo relation of the entity.
IsBelongsTo(f) ==
  /\ f \in DOMAIN bBuilder.fields
  /\ bBuilder.fields[f].relation.type = "belongsTo"

\* C21: ownedBy(field) throws unless field is a belongsTo relation of the
\* entity (a missing field, a scalar field and a hasMany or hasOne relation
\* are rejected); when it returns, ownerField is the foreign key of that
\* relation.
C21_OwnedByNeedsBelongsTo ==
  \A f \in OwnedByArguments :
    OwnedByCalled(f) =>
      IF IsBelongsTo(f)
      THEN ~bCall.threw /\ bBuilder.ownerField = bBuilder.fields[f].relation.foreignKey
      ELSE bCall.threw

\* What ownedBy does check: the field has a relation of any type.
OwnedByNeedsRelation ==
  \A f \in OwnedByArguments :
    OwnedByCalled(f) =>
      IF hasRelation(bBuilder, f)
      THEN ~bCall.threw /\ bBuilder.ownerField = bBuilder.fields[f].relation.foreignKey
      ELSE bCall.threw

====
